---- MODULE Spec2Model ----
(***************************************************************************)
(* Model of qa_validation.py: the QA automation engine that drives a fixed *)
(* sequence of HTTP test flows against three services, threads session     *)
(* state between them, classifies each flow and aggregates API health.     *)
(*                                                                         *)
(* Python values (JSON bodies, Optional fields) are tagged records, so     *)
(* that truthiness, membership, .get and the exceptions they raise are     *)
(* computed the way the interpreter computes them.                         *)
(***************************************************************************)
EXTENDS Integers, Sequences, FiniteSets, TLC

VARIABLES
  pos,      \* run_all_tests: the number of calls of its schedule made so far
  stack,    \* the step procedures being executed, the innermost last
  net,      \* the requests handed to the HTTP client and not yet answered
  ret,      \* what make_request has just returned to the step on top
  retflow,  \* the flow the last step procedure returned to its caller
  report,   \* self.report: flows, api_health, end_time
  session,  \* the tokens and ids kept on the engine between steps
  writes,   \* history: for each session field, the steps that assigned it
  faults,   \* the deviations of the services seen so far in the run
  log       \* history: the calls, requests, responses and returns of the run,
            \* in order

vars == <<pos, stack, net, ret, retflow, report, session, writes, faults, log>>

\* The number of distinct ways (endpoint, response) in which the services
\* may deviate from their nominal behaviour during one run.
MaxFaults == 1

\* The number of calls recorded into the health table, where log_api_call
\* is checked on its own.
MaxCalls == 3

\* The number of times the operator interrupts a run (Ctrl-C).
MaxInterrupts == 1

\* The length of the flow lists on which get_summary is checked on its own;
\* at 16 flows the percentage can fall exactly between two tenths.
MaxFlows == 16

-----------------------------------------------------------------------------
(* Python values *)

None == [t |-> "null"]

JInt(n) == [t |-> "int", n |-> n]

JStr(s) == [t |-> "str", s |-> s]

JBool(b) == [t |-> "bool", b |-> b]

JList(xs) == [t |-> "list", items |-> xs]

JDict(m) == [t |-> "dict", m |-> m]

\* a response body that response.json() cannot decode; text is the raw body
Invalid(text) == [t |-> "invalid", text |-> text]

EmptyMap == <<>>

\* bool(v)
Truthy(v) ==
  CASE v.t = "null" -> FALSE
    [] v.t = "int"  -> v.n # 0
    [] v.t = "str"  -> v.s # ""
    [] v.t = "bool" -> v.b
    [] v.t = "list" -> Len(v.items) > 0
    [] v.t = "dict" -> DOMAIN v.m # {}

IsDict(v) == v.t = "dict"

IsList(v) == v.t = "list"

\* d.get(k, default) on a dict d
Get(d, k, default) == IF k \in DOMAIN d.m THEN d.m[k] ELSE default

\* `k in v` raises TypeError on None, numbers and booleans
InRaises(v) == v.t \in {"null", "int", "bool"}

\* `k in v` on a dict (key test) or a list (element test)
In(k, v) ==
  CASE v.t = "dict" -> k \in DOMAIN v.m
    [] v.t = "list" -> \E i \in 1..Len(v.items) : v.items[i] = JStr(k)

\* v[0] / v[-1] followed by .get: raises unless v is a list of dicts there
First(v) == v.items[1]

Last(v) == v.items[Len(v.items)]

\* str(v) as an f-string interpolates it
PyStr(v) ==
  CASE v.t = "null" -> "None"
    [] v.t = "int"  -> ToString(v.n)
    [] v.t = "str"  -> v.s
    [] v.t = "bool" -> IF v.b THEN "True" ELSE "False"
    [] v.t = "list" -> "[...]"
    [] v.t = "dict" -> "{...}"

\* a or b
Or(a, b) == IF Truthy(a) THEN a ELSE b

-----------------------------------------------------------------------------
(* Configuration and data classes *)

SERVICE_A == "A"

SERVICE_B == "B"

SERVICE_C == "C"

ADMIN_EMAIL == "admin@example.com"

CUSTOMER_EMAIL == "alice@example.com"

TestResult == {"PASS", "FAIL", "WARNING", "SKIPPED"}

Url(path, arg) == [path |-> path, arg |-> arg]

\* obj is the identity of the object, the ordinal of its creation
APICall(obj, url, method, payload, service) ==
  [obj |-> obj, url |-> url, method |-> method, payload |-> payload,
   response_code |-> None, response_time |-> None,
   service |-> service, error |-> None]

TestFlow(name, service) ==
  [name |-> name, result |-> "SKIPPED", service |-> service,
   apis |-> <<>>, root_cause |-> JStr(""), fix_applied |-> JStr("")]

Fields ==
  {"customer_token", "admin_token", "customer_user_id", "admin_user_id",
   "test_address_id", "test_product_id", "test_category_id",
   "test_order_id", "test_cart_item_id"}

QAReport == [flows |-> <<>>, api_health |-> EmptyMap, end_time |-> None]

\* mutant: the flow is inserted at the front
add_flow_front(r, flow) == [r EXCEPT !.flows = <<flow>> \o @]

add_flow(r, flow) == [r EXCEPT !.flows = Append(@, flow)]

CountResult(flows, res) ==
  Cardinality({i \in 1..Len(flows) : flows[i].result = res})

\* round(q / d) to the nearest integer, ties to even, as "%.1f" rounds
RoundHalfEven(q, d) ==
  LET fl == q \div d
      rm == q % d
  IN IF 2 * rm > d THEN fl + 1
     ELSE IF 2 * rm < d THEN fl
     ELSE fl + (fl % 2)

\* mutant: the percentage is cut after its first decimal instead of rounded
get_summary_truncates(r) ==
  LET total    == Len(r.flows)
      passed   == CountResult(r.flows, "PASS")
      failed   == CountResult(r.flows, "FAIL")
      warnings == CountResult(r.flows, "WARNING")
      skipped  == CountResult(r.flows, "SKIPPED")
  IN [total |-> total, passed |-> passed, failed |-> failed,
      warnings |-> warnings, skipped |-> skipped,
      success_rate |-> IF total > 0
                        THEN [fmt |-> ".1f%",
                              tenths |-> (passed * 1000) \div total]
                        ELSE [fmt |-> "0%"]]

\* mutant: flows left at the default result are counted as failed too
get_summary_overlap(r) ==
  LET total    == Len(r.flows)
      passed   == CountResult(r.flows, "PASS")
      failed   == CountResult(r.flows, "FAIL") + CountResult(r.flows, "SKIPPED")
      warnings == CountResult(r.flows, "WARNING")
      skipped  == CountResult(r.flows, "SKIPPED")
  IN [total |-> total, passed |-> passed, failed |-> failed,
      warnings |-> warnings, skipped |-> skipped,
      success_rate |-> IF total > 0
                        THEN [fmt |-> ".1f%",
                              tenths |-> RoundHalfEven(passed * 1000, total)]
                        ELSE [fmt |-> "0%"]]

\* success_rate: the tenths of a percent that f"{x:.1f}%" prints, or the
\* literal "0%"
get_summary(r) ==
  LET total    == Len(r.flows)
      passed   == CountResult(r.flows, "PASS")
      failed   == CountResult(r.flows, "FAIL")
      warnings == CountResult(r.flows, "WARNING")
      skipped  == CountResult(r.flows, "SKIPPED")
  IN [total |-> total, passed |-> passed, failed |-> failed,
      warnings |-> warnings, skipped |-> skipped,
      success_rate |-> IF total > 0
                        THEN [fmt |-> ".1f%",
                              tenths |-> RoundHalfEven(passed * 1000, total)]
                        ELSE [fmt |-> "0%"]]

-----------------------------------------------------------------------------
(* Health Aggregator *)

NewHealth ==
  [total |-> 0, success |-> 0, failures |-> 0,
   avg_latency |-> <<0, 1>>, latencies |-> <<>>]

RECURSIVE SumSeq(_)
SumSeq(s) == IF s = <<>> THEN 0 ELSE Head(s) + SumSeq(Tail(s))

\* mutant: redirects count as successes
IsSuccessCode_below_400(code) == Truthy(code) /\ 200 <= code.n /\ code.n < 400

IsSuccessCode(code) == Truthy(code) /\ 200 <= code.n /\ code.n < 300

\* mutant: once a service has a failure, every later call counts as one
RecordHealth_sticky(health, call) ==
  LET h1 == [health EXCEPT !.total = @ + 1]
      h2 == IF IsSuccessCode(call.response_code) /\ health.failures = 0
              THEN [h1 EXCEPT !.success = @ + 1]
              ELSE [h1 EXCEPT !.failures = @ + 1]
  IN IF Truthy(call.response_time)
       THEN LET lats == Append(h2.latencies, call.response_time.n)
            IN [h2 EXCEPT !.latencies = lats,
                          !.avg_latency = <<SumSeq(lats), Len(lats)>>]
       ELSE h2

\* avg_latency is the exact quotient <<sum, len>>
RecordHealth(health, call) ==
  LET h1 == [health EXCEPT !.total = @ + 1]
      h2 == IF IsSuccessCode(call.response_code)
              THEN [h1 EXCEPT !.success = @ + 1]
              ELSE [h1 EXCEPT !.failures = @ + 1]
  IN IF Truthy(call.response_time)
       THEN LET lats == Append(h2.latencies, call.response_time.n)
            IN [h2 EXCEPT !.latencies = lats,
                          !.avg_latency = <<SumSeq(lats), Len(lats)>>]
       ELSE h2

\* mutant: a call whose status is not a success is left out of the table
log_api_call_successes_only(call, flow, api_health) ==
  LET flow2 == [flow EXCEPT !.apis = Append(@, call)]
  IN IF Truthy(call.service) /\ IsSuccessCode(call.response_code)
       THEN LET svc == call.service.s
                h0  == IF svc \in DOMAIN api_health
                         THEN api_health
                         ELSE [s \in DOMAIN api_health \cup {svc} |->
                                 IF s = svc THEN NewHealth ELSE api_health[s]]
            IN [flow |-> flow2,
                api_health |-> [h0 EXCEPT ![svc] = RecordHealth(@, call)]]
       ELSE [flow |-> flow2, api_health |-> api_health]

\* returns the flow and the health table after the call
log_api_call(call, flow, api_health) ==
  LET flow2 == [flow EXCEPT !.apis = Append(@, call)]
  IN IF Truthy(call.service)
       THEN LET svc == call.service.s
                h0  == IF svc \in DOMAIN api_health
                         THEN api_health
                         ELSE [s \in DOMAIN api_health \cup {svc} |->
                                 IF s = svc THEN NewHealth ELSE api_health[s]]
            IN [flow |-> flow2,
                api_health |-> [h0 EXCEPT ![svc] = RecordHealth(@, call)]]
       ELSE [flow |-> flow2, api_health |-> api_health]

-----------------------------------------------------------------------------
(* The services under test, as self.client.request sees them *)

Http(status, body, elapsed) ==
  [kind |-> "resp", status_code |-> status, body |-> body, elapsed |-> elapsed]

\* self.client.request raises (connection refused, timeout)
TransportError(msg) == [kind |-> "exc", msg |-> msg]

Detail(msg) == JDict([detail |-> JStr(msg)])

Endpoint(call) == call.method \o " " \o call.url.path

ProductBody ==
  JDict([id |-> JInt(1), name |-> JStr("Product"), base_price |-> JInt(10),
         variants |-> JList(<<JDict([id |-> JInt(1), sku |-> JStr("SKU-1-A"),
                                     price |-> JInt(10)])>>)])

UserBody(n) == JDict([id |-> JInt(n), email |-> JStr("user@example.com")])

LoginBody(tok, n) == JDict([access_token |-> JStr(tok), user |-> UserBody(n)])

\* the status a healthy service answers the endpoint with
SuccessStatus(ep) ==
  IF ep \in {"POST /auth/signup", "POST /addresses", "POST /cart/items",
             "POST /catalog/admin/categories"}
    THEN 201 ELSE 200

\* the body a healthy service answers the request with
GoodBody(req) ==
  LET ep == Endpoint(req.call) IN
  CASE ep = "POST /auth/signup" -> LoginBody("tokN", 3)
    [] ep = "POST /auth/login" ->
         IF req.call.payload.m.email = JStr(ADMIN_EMAIL)
           THEN LoginBody("tokA", 2) ELSE LoginBody("tokC", 1)
    [] ep = "GET /auth/me" -> UserBody(1)
    [] ep \in {"GET /catalog/categories", "GET /catalog/products"} ->
         JList(<<JDict([id |-> JInt(1), name |-> JStr("Item")])>>)
    [] ep \in {"GET /catalog/search?q=product", "GET /addresses", "GET /orders",
               "GET /orders/admin/all", "GET /stores", "GET /stores/nearby",
               "GET /reviews/product/{id}"} -> JList(<<>>)
    [] ep = "GET /catalog/products/{id}" -> ProductBody
    [] ep = "POST /addresses" -> JDict([id |-> JInt(1)])
    [] ep = "GET /cart" -> JDict([items |-> JList(<<>>)])
    [] ep \in {"POST /cart/items", "PUT /cart/items/{id}",
               "DELETE /cart/items/{id}"} ->
         JDict([items |-> JList(<<JDict([id |-> JInt(1)])>>)])
    [] ep = "POST /checkout/create-payment-intent" ->
         JDict([client_secret |-> JStr("secret"), order_id |-> JInt(1)])
    [] ep = "GET /orders/{id}" ->
         JDict([id |-> JInt(1), order_number |-> JStr("ORD-1")])
    [] ep = "POST /catalog/admin/categories" -> JDict([id |-> JInt(2)])
    [] ep = "POST /orders/{id}/status" -> JDict([status |-> JStr("packed")])
    [] ep = "GET /inventory/{sku}" ->
         JDict([quantity |-> JInt(5), available |-> JInt(5)])
    [] ep = "POST /inventory/reserve" -> JDict([success |-> JBool(TRUE)])
    [] ep = "POST /notify" -> JDict([status |-> JStr("sent")])

\* what the platform answers when nothing is wrong with it: it rejects a
\* bearer token it did not issue and does not find an entity that was never
\* created
Nominal(req) ==
  LET ep == Endpoint(req.call) IN
  IF ep = "GET /auth/me" /\ req.token \notin {JStr("tokC"), JStr("tokA")}
    THEN Http(401, Detail("Could not validate credentials"), 1)
  ELSE IF ep = "GET /catalog/products/{id}" /\ req.call.url.arg # JInt(1)
    THEN Http(404, Detail("Not found"), 1)
  ELSE Http(SuccessStatus(ep), GoodBody(req), 1)

\* responses of a failing service or network, whatever the endpoint
GenericFaults ==
  {TransportError("Connection refused"),
   Http(500, Invalid("Internal Server Error"), 1),
   Http(502, Invalid(""), 1),
   Http(404, Detail("Not found"), 1),
   Http(401, Detail("Could not validate credentials"), 1),
   Http(422, JDict([detail |-> None]), 1)}

KeyBodies == {Invalid("<html>"), None, JDict(EmptyMap), JList(<<>>)}

\* bodies a service may send with its success status that do not have the
\* shape the step expects
BadBodies(ep) ==
  CASE ep \in {"POST /auth/signup", "GET /auth/me", "GET /cart", "GET /orders/{id}",
               "POST /catalog/admin/categories", "GET /inventory/{sku}"} ->
         KeyBodies
    [] ep = "POST /auth/login" ->
         {Invalid("<html>"), JList(<<>>), JDict(EmptyMap),
          JDict([access_token |-> JStr("tokX")]),
          JDict([user |-> UserBody(1)]),
          JDict([access_token |-> JStr("tokC"), user |-> JStr("alice")]),
          JDict([access_token |-> JStr(""), user |-> UserBody(1)]),
          JDict([access_token |-> JStr("tokC"), user |-> JDict(EmptyMap)]),
          JDict([access_token |-> JStr("tokC"),
                 user |-> JDict([email |-> JStr("user@example.com")])])}
    [] ep \in {"GET /catalog/categories", "GET /catalog/products"} ->
         {Invalid("<html>"), JDict(EmptyMap), JList(<<>>), JList(<<JInt(7)>>),
          JList(<<JDict(EmptyMap)>>), JList(<<JDict([id |-> JInt(0)])>>)}
    [] ep \in {"GET /catalog/search?q=product", "GET /addresses", "GET /orders",
               "GET /orders/admin/all", "GET /stores", "GET /stores/nearby",
               "GET /reviews/product/{id}"} ->
         {Invalid("<html>"), JDict(EmptyMap)}
    [] ep = "GET /catalog/products/{id}" ->
         KeyBodies \cup
         {JList(<<JStr("id"), JStr("name")>>),
          JDict([id |-> JInt(1), name |-> JStr("Product")]),
          JDict([id |-> JInt(1), name |-> JStr("Product"),
                 variants |-> JList(<<JDict(EmptyMap)>>)]),
          JDict([id |-> JInt(1), name |-> JStr("Product"), variants |-> JInt(5)])}
    [] ep = "POST /addresses" ->
         {Invalid("<html>"), JDict(EmptyMap), JList(<<>>), JDict([id |-> JInt(0)])}
    [] ep = "POST /cart/items" ->
         {Invalid("<html>"), JList(<<>>), JDict(EmptyMap),
          JDict([items |-> JList(<<JDict(EmptyMap)>>)]),
          JDict([items |-> JList(<<JInt(7)>>)]),
          JDict([items |-> JList(<<JDict([id |-> JInt(0)])>>)])}
    [] ep = "POST /checkout/create-payment-intent" ->
         KeyBodies \cup
         {JDict([client_secret |-> JStr("secret"), order_id |-> None]),
          JDict([order_id |-> JInt(1)])}
    [] ep = "POST /orders/{id}/status" ->
         {Invalid("<html>"), JList(<<>>), JDict(EmptyMap),
          JDict([status |-> JStr("pending")])}
    [] ep = "POST /inventory/reserve" ->
         {Invalid("<html>"), JList(<<>>), JDict(EmptyMap),
          JDict([success |-> JBool(FALSE), message |-> JStr("Insufficient stock")])}
    [] ep \in {"PUT /cart/items/{id}", "DELETE /cart/items/{id}", "POST /notify"} ->
         {}

\* every response the request may get: the nominal one, a generic failure,
\* the success status with a bad body, the other success status, or the
\* healthy answer measured with a zero elapsed time
Variants(req) ==
  LET ep == Endpoint(req.call)
      st == SuccessStatus(ep)
  IN {Nominal(req)} \cup GenericFaults
     \cup {Http(st, b, 1) : b \in {GoodBody(req)} \cup BadBodies(ep)}
     \cup {Http(IF st = 200 THEN 201 ELSE 200, GoodBody(req), 1),
           Http(st, GoodBody(req), 0)}

Fault(req, r) == [endpoint |-> Endpoint(req.call), response |-> r]

\* a deviation already seen at an endpoint may recur there; new ones are
\* limited by MaxFaults
Responses(req, fs) ==
  {r \in Variants(req) :
     r = Nominal(req) \/ Cardinality(fs \cup {Fault(req, r)}) <= MaxFaults}

-----------------------------------------------------------------------------
(* Instrumented Request Primitive *)

\* response.text[:100]; the bodies of the model are shorter than 100
Text100(r) == IF r.body.t = "invalid" THEN JStr(r.body.text) ELSE JStr("<json>")

\* response.json().get("detail", response.text[:100]), or response.text[:100]
\* when that raises
ErrorSummary(r) ==
  IF IsDict(r.body) THEN Get(r.body, "detail", Text100(r)) ELSE Text100(r)

\* mutant: a transport failure leaves the status unset
make_request_result_no_sentinel(call, r) ==
  IF r.kind = "exc"
    THEN [response |-> None,
          call |-> [call EXCEPT !.error = JStr(r.msg)]]
    ELSE [response |-> r,
          call |-> [call EXCEPT !.response_time = JInt(r.elapsed),
                                !.response_code = JInt(r.status_code),
                                !.error = IF r.status_code >= 400
                                            THEN ErrorSummary(r) ELSE @]]

\* the pair make_request returns for the prepared call and what the client did
make_request_result(call, r) ==
  IF r.kind = "exc"
    THEN [response |-> None,
          call |-> [call EXCEPT !.error = JStr(r.msg), !.response_code = JInt(500)]]
    ELSE [response |-> r,
          call |-> [call EXCEPT !.response_time = JInt(r.elapsed),
                                !.response_code = JInt(r.status_code),
                                !.error = IF r.status_code >= 400
                                            THEN ErrorSummary(r) ELSE @]]

-----------------------------------------------------------------------------
(* Step procedures: shared plumbing *)

Top == stack[Len(stack)]

Frame(fn, arg) == [fn |-> fn, arg |-> arg, pc |-> "start", flow |-> None]

\* what a step procedure can see and change: its flow, the session fields
\* (with the steps that assigned each, in order) and the health table
Ctx(fr) == [flow |-> fr.flow, s |-> session, w |-> writes, h |-> report.api_health]

\* flow = TestFlow(name=..., service=...)
CtxStart(name, service) ==
  [flow |-> TestFlow(name, service), s |-> session, w |-> writes,
   h |-> report.api_health]

\* self.log_api_call(call, flow)
Log(c, call) ==
  LET r == log_api_call(call, c.flow, c.h)
  IN [c EXCEPT !.flow = r.flow, !.h = r.api_health]

SetResult(c, res) == [c EXCEPT !.flow.result = res]

Result(c, res, cause) == [c EXCEPT !.flow.result = res, !.flow.root_cause = cause]

\* self.<field> = v
Assign(c, field, v) ==
  [c EXCEPT !.s[field] = v, !.w[field] = Append(@, c.flow.name)]

\* return flow; exc is the text of the exception the step caught on its way,
\* None when it caught none
Return(c) == [op |-> "return", c |-> c, exc |-> None]

\* the requests issued so far
Requests == {i \in 1..Len(log) : log[i].ev = "request"}

NextObj == Cardinality(Requests) + 1

\* the session fields that are falsy, as the guards of the steps test them
Absent == {f \in Fields : ~Truthy(session[f])}

\* self.make_request(method, url, token=..., json_data=..., service=...)
Send(c, pc, method, path, arg, token, payload, service) ==
  [op |-> "send", c |-> c, pc |-> pc,
   req |-> [call |-> APICall(NextObj, Url(path, arg), method, payload,
                             JStr(service)),
            token |-> token]]

\* a nested call of another step procedure
CallFn(c, pc, fn) == [op |-> "call", c |-> c, pc |-> pc, fn |-> fn]

\* mutant: the handler swallows the exception and keeps the flow as it is
Raise_keeps_outcome(c, msg) == [op |-> "return", c |-> c, exc |-> JStr(msg)]

\* except Exception as e: flow.result = FAIL; flow.root_cause = str(e)
Raise(c, msg) ==
  [op |-> "return", c |-> Result(c, "FAIL", JStr(msg)), exc |-> JStr(msg)]

EJson == "Expecting value: line 1 column 1 (char 0)"

EGet == "object has no attribute 'get'"

EIn == "argument of type is not iterable"

EIndex == "object is not subscriptable"

\* response and response.status_code == code
StatusIs(code) == ret.response # None /\ ret.response.status_code = code

Body == ret.response.body

JsonRaises == Body.t = "invalid"

\* call.error or f"Status {call.response_code}"
ErrOrStatus(call) == Or(call.error, JStr("Status " \o PyStr(call.response_code)))

FailStatus(c) == Return(Result(c, "FAIL", ErrOrStatus(ret.call)))

\* data = response.json(); PASS if isinstance(data, list), else WARNING
ClassifyList(c, cause) ==
  IF JsonRaises THEN Raise(c, EJson)
  ELSE IF IsList(Body) THEN Return(SetResult(c, "PASS"))
  ELSE Return(Result(c, "WARNING", cause))

\* data = response.json(); PASS if every key is `in data`, else WARNING
ClassifyKeys(c, keys, cause) ==
  IF JsonRaises THEN Raise(c, EJson)
  ELSE IF InRaises(Body) THEN Raise(c, EIn)
  ELSE IF \A k \in keys : In(k, Body) THEN Return(SetResult(c, "PASS"))
  ELSE Return(Result(c, "WARNING", cause))

\* product_data = product_response.json()
\* variants = product_data.get("variants", []); variant = variants[0]
\* sku = variant.get("sku") or f"SKU-{self.test_product_id}"
\* gives what raises ("raise"), the empty variants ("none") or the variant
ProductVariant(body, product_id) ==
  IF body.t = "invalid" THEN [k |-> "raise", msg |-> EJson]
  ELSE IF ~IsDict(body) THEN [k |-> "raise", msg |-> EGet]
  ELSE LET variants == Get(body, "variants", JList(<<>>)) IN
    IF ~Truthy(variants) THEN [k |-> "none"]
    ELSE IF ~IsList(variants) THEN [k |-> "raise", msg |-> EIndex]
    ELSE IF ~IsDict(First(variants)) THEN [k |-> "raise", msg |-> EGet]
    ELSE LET variant == First(variants) IN
      [k |-> "variant", variant |-> variant,
       sku |-> Or(Get(variant, "sku", None), JStr("SKU-" \o PyStr(product_id))),
       price |-> Get(variant, "price", Get(body, "base_price", JInt(0)))]

CartPayload(v, product_id) ==
  JDict([product_id |-> product_id, variant_id |-> Get(v.variant, "id", None),
         sku |-> v.sku, quantity |-> JInt(1), price |-> v.price])

-----------------------------------------------------------------------------
(* Step procedures: what each does from its entry or from the return of the
   request (or nested call) it was waiting for, up to its next request or
   its return *)

user_registration(fr) ==
  IF fr.pc = "start"
    THEN Send(CtxStart("User Registration", "A"), "signup", "POST", "/auth/signup",
              None, None,
              JDict([email |-> JStr("testuser{timestamp}@test.com"),
                     password |-> JStr("Test@123"),
                     full_name |-> JStr("Test User")]),
              SERVICE_A)
    ELSE LET c == Log(Ctx(fr), ret.call) IN
      IF StatusIs(201)
        THEN ClassifyKeys(c, {"access_token", "user"},
                          JStr("Missing token or user in response"))
        ELSE FailStatus(c)

\* mutant: a 200 without token or user is a WARNING, as in the signup step
user_login_warns(fr) ==
  IF fr.pc = "start"
    THEN Send(CtxStart("User Login (" \o fr.arg.role \o ")", "A"), "login",
              "POST", "/auth/login", None, None,
              JDict([email |-> JStr(fr.arg.email),
                     password |-> JStr(fr.arg.password)]),
              SERVICE_A)
    ELSE LET c == Log(Ctx(fr), ret.call) IN
      IF StatusIs(200)
        THEN IF JsonRaises THEN Raise(c, EJson)
             ELSE IF ~IsDict(Body) THEN Raise(c, EGet)
             ELSE LET token == Get(Body, "access_token", None)
                      user  == Get(Body, "user", None)
                      tf    == IF fr.arg.role = "customer"
                                 THEN "customer_token" ELSE "admin_token"
                      uf    == IF fr.arg.role = "customer"
                                 THEN "customer_user_id" ELSE "admin_user_id"
                  IN IF Truthy(token) /\ Truthy(user)
                       THEN LET c1 == Assign(c, tf, token) IN
                            IF ~IsDict(user) THEN Raise(c1, EGet)
                            ELSE Return(SetResult(
                                   Assign(c1, uf, Get(user, "id", None)), "PASS"))
                       ELSE Return(Result(c, "WARNING",
                                   JStr("Missing token or user in response")))
        ELSE FailStatus(c)

\* mutant: one token and one user id for both roles
user_login_one_slot(fr) ==
  IF fr.pc = "start"
    THEN Send(CtxStart("User Login (" \o fr.arg.role \o ")", "A"), "login",
              "POST", "/auth/login", None, None,
              JDict([email |-> JStr(fr.arg.email),
                     password |-> JStr(fr.arg.password)]),
              SERVICE_A)
    ELSE LET c == Log(Ctx(fr), ret.call) IN
      IF StatusIs(200)
        THEN IF JsonRaises THEN Raise(c, EJson)
             ELSE IF ~IsDict(Body) THEN Raise(c, EGet)
             ELSE LET token == Get(Body, "access_token", None)
                      user  == Get(Body, "user", None)
                      tf    == "customer_token"
                      uf    == "customer_user_id"
                  IN IF Truthy(token) /\ Truthy(user)
                       THEN LET c1 == Assign(c, tf, token) IN
                            IF ~IsDict(user) THEN Raise(c1, EGet)
                            ELSE Return(SetResult(
                                   Assign(c1, uf, Get(user, "id", None)), "PASS"))
                       ELSE Return(Result(c, "FAIL",
                                   JStr("Missing token or user in response")))
        ELSE FailStatus(c)

\* fr.arg = [email, password, role]
user_login(fr) ==
  IF fr.pc = "start"
    THEN Send(CtxStart("User Login (" \o fr.arg.role \o ")", "A"), "login",
              "POST", "/auth/login", None, None,
              JDict([email |-> JStr(fr.arg.email),
                     password |-> JStr(fr.arg.password)]),
              SERVICE_A)
    ELSE LET c == Log(Ctx(fr), ret.call) IN
      IF StatusIs(200)
        THEN IF JsonRaises THEN Raise(c, EJson)
             ELSE IF ~IsDict(Body) THEN Raise(c, EGet)
             ELSE LET token == Get(Body, "access_token", None)
                      user  == Get(Body, "user", None)
                      tf    == IF fr.arg.role = "customer"
                                 THEN "customer_token" ELSE "admin_token"
                      uf    == IF fr.arg.role = "customer"
                                 THEN "customer_user_id" ELSE "admin_user_id"
                  IN IF Truthy(token) /\ Truthy(user)
                       THEN LET c1 == Assign(c, tf, token) IN
                            IF ~IsDict(user) THEN Raise(c1, EGet)
                            ELSE Return(SetResult(
                                   Assign(c1, uf, Get(user, "id", None)), "PASS"))
                       ELSE Return(Result(c, "FAIL",
                                   JStr("Missing token or user in response")))
        ELSE FailStatus(c)

get_current_user(fr) ==
  IF fr.pc = "start"
    THEN LET c == CtxStart("Get Current User", "A") IN
      IF ~Truthy(session.customer_token)
        THEN Return(Result(c, "SKIPPED", JStr("No auth token")))
        ELSE Send(c, "me", "GET", "/auth/me", None, session.customer_token,
                  None, SERVICE_A)
    ELSE LET c == Log(Ctx(fr), ret.call) IN
      IF StatusIs(200)
        THEN ClassifyKeys(c, {"id", "email"}, JStr("Incomplete user data"))
        ELSE FailStatus(c)

\* mutant: every error status counts as a rejection of the token
jwt_accepts_any_error(fr) ==
  IF fr.pc = "start"
    THEN Send(CtxStart("JWT Expiration Handling", "A"), "me", "GET", "/auth/me",
              None, JStr("invalid.jwt.token"), None, SERVICE_A)
    ELSE LET c == Log(Ctx(fr), ret.call) IN
      IF ret.response # None /\ ret.response.status_code >= 400
        THEN Return(SetResult(c, "PASS"))
        ELSE Return(Result(c, "WARNING",
                           JStr("Should return 401 for invalid token")))

jwt_expiration_handling(fr) ==
  IF fr.pc = "start"
    THEN Send(CtxStart("JWT Expiration Handling", "A"), "me", "GET", "/auth/me",
              None, JStr("invalid.jwt.token"), None, SERVICE_A)
    ELSE LET c == Log(Ctx(fr), ret.call) IN
      IF StatusIs(401)
        THEN Return(SetResult(c, "PASS"))
        ELSE Return(Result(c, "WARNING",
                           JStr("Should return 401 for invalid token")))

\* the listing steps that keep the id of the first element
first_id_listing(fr, name, path, field, cause) ==
  IF fr.pc = "start"
    THEN Send(CtxStart(name, "B"), "list", "GET", path, None, None, None, SERVICE_B)
    ELSE LET c == Log(Ctx(fr), ret.call) IN
      IF StatusIs(200)
        THEN IF JsonRaises THEN Raise(c, EJson)
             ELSE IF IsList(Body)
               THEN LET c1 == SetResult(c, "PASS") IN
                    IF Truthy(Body)
                      THEN IF ~IsDict(First(Body)) THEN Raise(c1, EGet)
                           ELSE Return(Assign(c1, field,
                                              Get(First(Body), "id", None)))
                      ELSE Return(c1)
               ELSE Return(Result(c, "WARNING", cause))
        ELSE FailStatus(c)

get_categories(fr) ==
  first_id_listing(fr, "Get Categories", "/catalog/categories",
                   "test_category_id", JStr("Expected array, got other type"))

get_products(fr) ==
  first_id_listing(fr, "Get Products", "/catalog/products",
                   "test_product_id", JStr("Expected array"))

search_products(fr) ==
  IF fr.pc = "start"
    THEN Send(CtxStart("Search Products", "B"), "list", "GET",
              "/catalog/search?q=product", None, None, None, SERVICE_B)
    ELSE LET c == Log(Ctx(fr), ret.call) IN
      IF StatusIs(200) THEN ClassifyList(c, c.flow.root_cause) ELSE FailStatus(c)

get_product_detail(fr) ==
  IF fr.pc = "start"
    THEN LET c == CtxStart("Get Product Detail", "B") IN
      IF ~Truthy(session.test_product_id)
        THEN Return(Result(c, "SKIPPED", JStr("No product ID available")))
        ELSE Send(c, "detail", "GET", "/catalog/products/{id}",
                  session.test_product_id, None, None, SERVICE_B)
    ELSE LET c == Log(Ctx(fr), ret.call) IN
      IF StatusIs(200)
        THEN ClassifyKeys(c, {"id", "name"}, c.flow.root_cause)
        ELSE FailStatus(c)

AddressPayload ==
  JDict([street |-> JStr("123 Test St"), city |-> JStr("San Francisco"),
         state |-> JStr("CA"), postal_code |-> JStr("94102"),
         country |-> JStr("USA"), address_type |-> JStr("shipping"),
         is_default |-> JBool(TRUE)])

\* mutant: the address is created whether or not a customer is logged in
create_address_unguarded(fr) ==
  IF fr.pc = "start"
    THEN LET c == CtxStart("Create Address", "A") IN
      IF FALSE
        THEN Return(SetResult(c, "SKIPPED"))
        ELSE Send(c, "create", "POST", "/addresses", None,
                  session.customer_token, AddressPayload, SERVICE_A)
    ELSE LET c == Log(Ctx(fr), ret.call) IN
      IF StatusIs(201)
        THEN IF JsonRaises THEN Raise(c, EJson)
             ELSE IF ~IsDict(Body) THEN Raise(c, EGet)
             ELSE Return(SetResult(
                    Assign(c, "test_address_id", Get(Body, "id", None)), "PASS"))
        ELSE FailStatus(c)

create_address(fr) ==
  IF fr.pc = "start"
    THEN LET c == CtxStart("Create Address", "A") IN
      IF ~Truthy(session.customer_token)
        THEN Return(SetResult(c, "SKIPPED"))
        ELSE Send(c, "create", "POST", "/addresses", None,
                  session.customer_token, AddressPayload, SERVICE_A)
    ELSE LET c == Log(Ctx(fr), ret.call) IN
      IF StatusIs(201)
        THEN IF JsonRaises THEN Raise(c, EJson)
             ELSE IF ~IsDict(Body) THEN Raise(c, EGet)
             ELSE Return(SetResult(
                    Assign(c, "test_address_id", Get(Body, "id", None)), "PASS"))
        ELSE FailStatus(c)

\* the customer's read steps that expect a list
customer_listing(fr, name, path) ==
  IF fr.pc = "start"
    THEN LET c == CtxStart(name, "A") IN
      IF ~Truthy(session.customer_token)
        THEN Return(SetResult(c, "SKIPPED"))
        ELSE Send(c, "list", "GET", path, None, session.customer_token,
                  None, SERVICE_A)
    ELSE LET c == Log(Ctx(fr), ret.call) IN
      IF StatusIs(200) THEN ClassifyList(c, c.flow.root_cause) ELSE FailStatus(c)

get_addresses(fr) == customer_listing(fr, "Get Addresses", "/addresses")

get_cart(fr) ==
  IF fr.pc = "start"
    THEN LET c == CtxStart("Get Cart", "A") IN
      IF ~Truthy(session.customer_token)
        THEN Return(SetResult(c, "SKIPPED"))
        ELSE Send(c, "cart", "GET", "/cart", None, session.customer_token,
                  None, SERVICE_A)
    ELSE LET c == Log(Ctx(fr), ret.call) IN
      IF StatusIs(200)
        THEN ClassifyKeys(c, {"items"}, c.flow.root_cause)
        ELSE FailStatus(c)

add_to_cart(fr) ==
  IF fr.pc = "start"
    THEN LET c == CtxStart("Add to Cart", "A") IN
      IF ~Truthy(session.customer_token) \/ ~Truthy(session.test_product_id)
        THEN Return(Result(c, "SKIPPED", JStr("Missing token or product ID")))
        ELSE Send(c, "product", "GET", "/catalog/products/{id}",
                  session.test_product_id, None, None, SERVICE_B)
  ELSE IF fr.pc = "product"
    THEN LET c == Ctx(fr) IN
      IF ~StatusIs(200)
        THEN Return(Result(c, "SKIPPED", JStr("Could not fetch product details")))
        ELSE LET v == ProductVariant(Body, session.test_product_id) IN
          IF v.k = "raise" THEN Raise(c, v.msg)
          ELSE IF v.k = "none"
            THEN Return(Result(c, "SKIPPED", JStr("Product has no variants")))
            ELSE Send(c, "items", "POST", "/cart/items", None,
                      session.customer_token,
                      CartPayload(v, session.test_product_id), SERVICE_A)
  ELSE LET c == Log(Ctx(fr), ret.call) IN
      IF StatusIs(201)
        THEN IF JsonRaises THEN Raise(c, EJson)
             ELSE IF ~IsDict(Body) THEN Raise(c, EGet)
             ELSE LET items == Get(Body, "items", JList(<<>>)) IN
               IF Truthy(items)
                 THEN IF ~IsList(items) THEN Raise(c, EIndex)
                      ELSE IF ~IsDict(Last(items)) THEN Raise(c, EGet)
                      ELSE Return(SetResult(
                             Assign(c, "test_cart_item_id",
                                    Get(Last(items), "id", None)), "PASS"))
                 ELSE Return(Result(c, "WARNING",
                             JStr("Cart item created but not in response")))
        ELSE FailStatus(c)

\* the two steps on the tracked cart item
cart_item_step(fr, name, method, payload) ==
  IF fr.pc = "start"
    THEN LET c == CtxStart(name, "A") IN
      IF ~Truthy(session.customer_token) \/ ~Truthy(session.test_cart_item_id)
        THEN Return(SetResult(c, "SKIPPED"))
        ELSE Send(c, "item", method, "/cart/items/{id}",
                  session.test_cart_item_id, session.customer_token,
                  payload, SERVICE_A)
    ELSE LET c == Log(Ctx(fr), ret.call) IN
      IF StatusIs(200) THEN Return(SetResult(c, "PASS")) ELSE FailStatus(c)

update_cart_item(fr) ==
  cart_item_step(fr, "Update Cart Item", "PUT", JDict([quantity |-> JInt(2)]))

\* mutant: the id is cleared once the item is deleted
remove_from_cart_clears(fr) ==
  LET o == cart_item_step(fr, "Remove from Cart", "DELETE", None)
  IN IF o.op = "return" /\ o.c.flow.result = "PASS"
       THEN [o EXCEPT !.c = Assign(@, "test_cart_item_id", None)]
       ELSE o

remove_from_cart(fr) == cart_item_step(fr, "Remove from Cart", "DELETE", None)

CheckoutPayload ==
  JDict([shipping_address_id |-> session.test_address_id,
         billing_address_id |-> session.test_address_id])

\* mutant: only a skipped repair stops the step; a failed one does not
create_payment_intent_ignores_repair(fr) ==
  LET send(c) == Send(c, "intent", "POST", "/checkout/create-payment-intent",
                      None, session.customer_token, CheckoutPayload, SERVICE_A)
  IN
  IF fr.pc = "start"
    THEN LET c == CtxStart("Create Payment Intent", "A") IN
      IF ~Truthy(session.customer_token) \/ ~Truthy(session.test_address_id)
        THEN Return(Result(c, "SKIPPED", JStr("Missing token or address")))
        ELSE IF ~Truthy(session.test_cart_item_id)
          THEN CallFn(c, "add_flow", "test_add_to_cart")
          ELSE send(c)
  ELSE IF fr.pc = "add_flow"
    THEN LET c == Ctx(fr) IN
      IF retflow.result = "SKIPPED"
        THEN Return(Result(c, "SKIPPED", JStr("Could not add item to cart")))
        ELSE send(c)
  ELSE LET c == Log(Ctx(fr), ret.call) IN
      IF StatusIs(200)
        THEN IF JsonRaises THEN Raise(c, EJson)
             ELSE IF InRaises(Body) THEN Raise(c, EIn)
             ELSE IF In("client_secret", Body) /\ In("order_id", Body)
               THEN IF ~IsDict(Body) THEN Raise(c, EGet)
                    ELSE Return(SetResult(
                           Assign(c, "test_order_id",
                                  Get(Body, "order_id", None)), "PASS"))
               ELSE Return(Result(c, "WARNING",
                           JStr("Missing client_secret or order_id")))
        ELSE FailStatus(c)

create_payment_intent(fr) ==
  LET send(c) == Send(c, "intent", "POST", "/checkout/create-payment-intent",
                      None, session.customer_token, CheckoutPayload, SERVICE_A)
  IN
  IF fr.pc = "start"
    THEN LET c == CtxStart("Create Payment Intent", "A") IN
      IF ~Truthy(session.customer_token) \/ ~Truthy(session.test_address_id)
        THEN Return(Result(c, "SKIPPED", JStr("Missing token or address")))
        ELSE IF ~Truthy(session.test_cart_item_id)
          THEN CallFn(c, "add_flow", "test_add_to_cart")
          ELSE send(c)
  ELSE IF fr.pc = "add_flow"
    THEN LET c == Ctx(fr) IN
      IF retflow.result # "PASS"
        THEN Return(Result(c, "SKIPPED", JStr("Could not add item to cart")))
        ELSE send(c)
  ELSE LET c == Log(Ctx(fr), ret.call) IN
      IF StatusIs(200)
        THEN IF JsonRaises THEN Raise(c, EJson)
             ELSE IF InRaises(Body) THEN Raise(c, EIn)
             ELSE IF In("client_secret", Body) /\ In("order_id", Body)
               THEN IF ~IsDict(Body) THEN Raise(c, EGet)
                    ELSE Return(SetResult(
                           Assign(c, "test_order_id",
                                  Get(Body, "order_id", None)), "PASS"))
               ELSE Return(Result(c, "WARNING",
                           JStr("Missing client_secret or order_id")))
        ELSE FailStatus(c)

get_orders(fr) == customer_listing(fr, "Get Orders", "/orders")

\* mutant: the step asks for the order whether or not an order id is known
get_order_detail_unguarded(fr) ==
  IF fr.pc = "start"
    THEN LET c == CtxStart("Get Order Detail", "A") IN
      IF ~Truthy(session.customer_token)
        THEN Return(SetResult(c, "SKIPPED"))
        ELSE Send(c, "order", "GET", "/orders/{id}", session.test_order_id,
                  session.customer_token, None, SERVICE_A)
    ELSE LET c == Log(Ctx(fr), ret.call) IN
      IF StatusIs(200)
        THEN ClassifyKeys(c, {"id", "order_number"}, c.flow.root_cause)
        ELSE FailStatus(c)

get_order_detail(fr) ==
  IF fr.pc = "start"
    THEN LET c == CtxStart("Get Order Detail", "A") IN
      IF ~Truthy(session.customer_token) \/ ~Truthy(session.test_order_id)
        THEN Return(SetResult(c, "SKIPPED"))
        ELSE Send(c, "order", "GET", "/orders/{id}", session.test_order_id,
                  session.customer_token, None, SERVICE_A)
    ELSE LET c == Log(Ctx(fr), ret.call) IN
      IF StatusIs(200)
        THEN ClassifyKeys(c, {"id", "order_number"}, c.flow.root_cause)
        ELSE FailStatus(c)

admin_create_category(fr) ==
  IF fr.pc = "start"
    THEN LET c == CtxStart("Admin Create Category", "B") IN
      IF ~Truthy(session.admin_token)
        THEN Return(SetResult(c, "SKIPPED"))
        ELSE Send(c, "category", "POST", "/catalog/admin/categories", None,
                  session.admin_token,
                  JDict([name |-> JStr("Test Category {timestamp}"),
                         slug |-> JStr("test-category-{timestamp}"),
                         description |-> JStr("Test category for QA")]),
                  SERVICE_B)
    ELSE LET c == Log(Ctx(fr), ret.call) IN
      IF StatusIs(201)
        THEN ClassifyKeys(c, {"id"}, c.flow.root_cause)
        ELSE FailStatus(c)

admin_update_order_status(fr) ==
  IF fr.pc = "start"
    THEN LET c == CtxStart("Admin Update Order Status", "A") IN
      IF ~Truthy(session.admin_token) \/ ~Truthy(session.test_order_id)
        THEN Return(Result(c, "SKIPPED", JStr("Missing admin token or order ID")))
        ELSE Send(c, "status", "POST", "/orders/{id}/status",
                  session.test_order_id, session.admin_token,
                  JDict([status |-> JStr("packed")]), SERVICE_A)
    ELSE LET c == Log(Ctx(fr), ret.call) IN
      IF StatusIs(200)
        THEN IF JsonRaises THEN Raise(c, EJson)
             ELSE IF ~IsDict(Body) THEN Raise(c, EGet)
             ELSE IF Get(Body, "status", None) = JStr("packed")
               THEN Return(SetResult(c, "PASS"))
               ELSE Return(Result(c, "WARNING",
                           JStr("Status not updated correctly")))
        ELSE FailStatus(c)

admin_get_all_orders(fr) ==
  IF fr.pc = "start"
    THEN LET c == CtxStart("Admin Get All Orders", "A") IN
      IF ~Truthy(session.admin_token)
        THEN Return(SetResult(c, "SKIPPED"))
        ELSE Send(c, "list", "GET", "/orders/admin/all", None,
                  session.admin_token, None, SERVICE_A)
    ELSE LET c == Log(Ctx(fr), ret.call) IN
      IF StatusIs(200) THEN ClassifyList(c, c.flow.root_cause) ELSE FailStatus(c)

get_inventory(fr) ==
  IF fr.pc = "start"
    THEN LET c == CtxStart("Get Inventory", "B") IN
      IF ~Truthy(session.test_product_id)
        THEN Return(Result(c, "SKIPPED", JStr("No product ID available")))
        ELSE Send(c, "product", "GET", "/catalog/products/{id}",
                  session.test_product_id, None, None, SERVICE_B)
  ELSE IF fr.pc = "product"
    THEN LET c == Ctx(fr) IN
      IF ~StatusIs(200)
        THEN Return(SetResult(c, "SKIPPED"))
        ELSE LET v == ProductVariant(Body, session.test_product_id) IN
          IF v.k = "raise" THEN Raise(c, v.msg)
          ELSE IF v.k = "none"
            THEN Return(Result(c, "SKIPPED", JStr("Product has no variants")))
            ELSE Send(c, "inventory", "GET", "/inventory/{sku}", v.sku,
                      None, None, SERVICE_B)
  ELSE LET c == Log(Ctx(fr), ret.call) IN
      IF StatusIs(200)
        THEN ClassifyKeys(c, {"quantity", "available"}, c.flow.root_cause)
        ELSE FailStatus(c)

reserve_inventory(fr) ==
  IF fr.pc = "start"
    THEN LET c == CtxStart("Reserve Inventory", "B") IN
      IF ~Truthy(session.test_product_id)
        THEN Return(SetResult(c, "SKIPPED"))
        ELSE Send(c, "product", "GET", "/catalog/products/{id}",
                  session.test_product_id, None, None, SERVICE_B)
  ELSE IF fr.pc = "product"
    THEN LET c == Ctx(fr) IN
      IF ~StatusIs(200)
        THEN Return(SetResult(c, "SKIPPED"))
        ELSE LET v == ProductVariant(Body, session.test_product_id) IN
          IF v.k = "raise" THEN Raise(c, v.msg)
          ELSE IF v.k = "none"
            THEN Return(SetResult(c, "SKIPPED"))
            ELSE Send(c, "reserve", "POST", "/inventory/reserve", None, None,
                      JDict([items |-> JList(<<JDict([sku |-> v.sku,
                                                      quantity |-> JInt(1)])>>),
                             order_id |-> Or(session.test_order_id, JInt(999))]),
                      SERVICE_B)
  ELSE LET c == Log(Ctx(fr), ret.call) IN
      IF StatusIs(200)
        THEN IF JsonRaises THEN Raise(c, EJson)
             ELSE IF ~IsDict(Body) THEN Raise(c, EGet)
             ELSE IF Truthy(Get(Body, "success", None))
               THEN Return(SetResult(c, "PASS"))
               ELSE Return(Result(c, "WARNING",
                           Get(Body, "message", JStr("Reservation failed"))))
        ELSE FailStatus(c)

notification_service(fr) ==
  IF fr.pc = "start"
    THEN Send(CtxStart("Notification Service", "C"), "notify", "POST", "/notify",
              None, None,
              JDict([type |-> JStr("ORDER_PLACED"),
                     data |-> JDict([order_id |-> JInt(123),
                                     order_number |-> JStr("ORD-123"),
                                     user_email |-> JStr("test@example.com")])]),
              SERVICE_C)
    ELSE LET c == Log(Ctx(fr), ret.call) IN
      IF StatusIs(200)
        THEN Return(SetResult(c, "PASS"))
        ELSE Return(Result(c, "WARNING", ErrOrStatus(ret.call)))

\* the public read steps of service B that expect a list
store_listing(fr, name, path) ==
  IF fr.pc = "start"
    THEN Send(CtxStart(name, "B"), "list", "GET", path, None, None, None, SERVICE_B)
    ELSE LET c == Log(Ctx(fr), ret.call) IN
      IF StatusIs(200) THEN ClassifyList(c, c.flow.root_cause) ELSE FailStatus(c)

get_stores(fr) == store_listing(fr, "Get Stores", "/stores")

get_nearby_stores(fr) == store_listing(fr, "Get Nearby Stores", "/stores/nearby")

get_product_reviews(fr) ==
  IF fr.pc = "start"
    THEN LET c == CtxStart("Get Product Reviews", "B") IN
      IF ~Truthy(session.test_product_id)
        THEN Return(SetResult(c, "SKIPPED"))
        ELSE Send(c, "list", "GET", "/reviews/product/{id}",
                  session.test_product_id, None, None, SERVICE_B)
    ELSE LET c == Log(Ctx(fr), ret.call) IN
      IF StatusIs(200) THEN ClassifyList(c, c.flow.root_cause) ELSE FailStatus(c)

\* mutant: only a transport failure of the cart-add stops the step
cross_service_continues(fr) ==
  IF fr.pc = "start"
    THEN LET c == CtxStart("Cross-Service: Product -> Cart -> Order", "A+B") IN
      IF ~Truthy(session.customer_token) \/ ~Truthy(session.test_address_id)
        THEN Return(SetResult(c, "SKIPPED"))
        ELSE Send(c, "product", "GET", "/catalog/products/{id}",
                  session.test_product_id, None, None, SERVICE_B)
  ELSE IF fr.pc = "product"
    THEN LET c == Log(Ctx(fr), ret.call) IN
      IF ~StatusIs(200)
        THEN Return(Result(c, "FAIL", JStr("Failed to get product")))
        ELSE LET v == ProductVariant(Body, session.test_product_id) IN
          IF v.k = "raise" THEN Raise(c, v.msg)
          ELSE IF v.k = "none"
            THEN Return(Result(c, "SKIPPED", JStr("Product has no variants")))
            ELSE Send(c, "cart", "POST", "/cart/items", None,
                      session.customer_token,
                      CartPayload(v, session.test_product_id), SERVICE_A)
  ELSE IF fr.pc = "cart"
    THEN LET c == Log(Ctx(fr), ret.call) IN
      IF ~StatusIs(201) /\ ret.response = None
        THEN Return(Result(c, "FAIL", JStr("Failed to add to cart")))
        ELSE Send(c, "order", "POST", "/checkout/create-payment-intent", None,
                  session.customer_token, CheckoutPayload, SERVICE_A)
  ELSE LET c == Log(Ctx(fr), ret.call) IN
      IF StatusIs(200)
        THEN IF JsonRaises THEN Raise(c, EJson)
             ELSE IF InRaises(Body) THEN Raise(c, EIn)
             ELSE IF In("order_id", Body)
               THEN Return(SetResult(c, "PASS"))
               ELSE Return(Result(c, "WARNING",
                           JStr("Order created but missing order_id")))
        ELSE Return(Result(c, "FAIL",
                    Or(ret.call.error, JStr("Failed to create order"))))

cross_service_cart_order_flow(fr) ==
  IF fr.pc = "start"
    THEN LET c == CtxStart("Cross-Service: Product -> Cart -> Order", "A+B") IN
      IF ~Truthy(session.customer_token) \/ ~Truthy(session.test_address_id)
        THEN Return(SetResult(c, "SKIPPED"))
        ELSE Send(c, "product", "GET", "/catalog/products/{id}",
                  session.test_product_id, None, None, SERVICE_B)
  ELSE IF fr.pc = "product"
    THEN LET c == Log(Ctx(fr), ret.call) IN
      IF ~StatusIs(200)
        THEN Return(Result(c, "FAIL", JStr("Failed to get product")))
        ELSE LET v == ProductVariant(Body, session.test_product_id) IN
          IF v.k = "raise" THEN Raise(c, v.msg)
          ELSE IF v.k = "none"
            THEN Return(Result(c, "SKIPPED", JStr("Product has no variants")))
            ELSE Send(c, "cart", "POST", "/cart/items", None,
                      session.customer_token,
                      CartPayload(v, session.test_product_id), SERVICE_A)
  ELSE IF fr.pc = "cart"
    THEN LET c == Log(Ctx(fr), ret.call) IN
      IF ~StatusIs(201)
        THEN Return(Result(c, "FAIL", JStr("Failed to add to cart")))
        ELSE Send(c, "order", "POST", "/checkout/create-payment-intent", None,
                  session.customer_token, CheckoutPayload, SERVICE_A)
  ELSE LET c == Log(Ctx(fr), ret.call) IN
      IF StatusIs(200)
        THEN IF JsonRaises THEN Raise(c, EJson)
             ELSE IF InRaises(Body) THEN Raise(c, EIn)
             ELSE IF In("order_id", Body)
               THEN Return(SetResult(c, "PASS"))
               ELSE Return(Result(c, "WARNING",
                           JStr("Order created but missing order_id")))
        ELSE Return(Result(c, "FAIL",
                    Or(ret.call.error, JStr("Failed to create order"))))

-----------------------------------------------------------------------------
(* Flow Orchestrator *)

ADMIN_PASSWORD == "Admin@123"

CUSTOMER_PASSWORD == "Alice@123"

Entry(fn, arg, recorded) == [fn |-> fn, arg |-> arg, recorded |-> recorded]

\* the calls of run_all_tests in order; recorded: the returned flow is passed
\* to self.report.add_flow
Schedule ==
  <<Entry("test_user_registration", None, TRUE),
    Entry("test_user_login", [email |-> CUSTOMER_EMAIL, password |-> CUSTOMER_PASSWORD, role |-> "customer"], TRUE),
    Entry("test_user_login", [email |-> ADMIN_EMAIL, password |-> ADMIN_PASSWORD, role |-> "admin"], TRUE),
    Entry("test_get_current_user", None, TRUE),
    Entry("test_jwt_expiration_handling", None, TRUE),
    Entry("test_get_categories", None, TRUE),
    Entry("test_get_products", None, TRUE),
    Entry("test_search_products", None, TRUE),
    Entry("test_get_product_detail", None, TRUE),
    Entry("test_create_address", None, TRUE),
    Entry("test_get_addresses", None, TRUE),
    Entry("test_get_cart", None, TRUE),
    Entry("test_add_to_cart", None, TRUE),
    Entry("test_update_cart_item", None, TRUE),
    Entry("test_remove_from_cart", None, TRUE),
    Entry("test_add_to_cart", None, FALSE),
    Entry("test_create_payment_intent", None, TRUE),
    Entry("test_get_orders", None, TRUE),
    Entry("test_get_order_detail", None, TRUE),
    Entry("test_admin_create_category", None, TRUE),
    Entry("test_admin_update_order_status", None, TRUE),
    Entry("test_admin_get_all_orders", None, TRUE),
    Entry("test_get_inventory", None, TRUE),
    Entry("test_reserve_inventory", None, TRUE),
    Entry("test_notification_service", None, TRUE),
    Entry("test_get_stores", None, TRUE),
    Entry("test_get_nearby_stores", None, TRUE),
    Entry("test_get_product_reviews", None, TRUE),
    Entry("test_cross_service_cart_order_flow", None, TRUE)>>

Finished == pos = Len(Schedule) + 1

Init ==
  /\ pos = 0
  /\ stack = <<>>
  /\ net = <<>>
  /\ ret = None
  /\ retflow = None
  /\ report = QAReport
  /\ session = [f \in Fields |-> None]
  /\ writes = [f \in Fields |-> <<>>]
  /\ faults = {}
  /\ log = <<>>

\* history: the session fields the procedure on top assigned on its way to o
Assigned(o) == {f \in Fields : o.c.w[f] # writes[f]}

\* the state after a step procedure has run up to its next request, nested
\* call or return
Apply(o) ==
  /\ session' = o.c.s
  /\ writes' = o.c.w
  /\ report' = [report EXCEPT !.api_health = o.c.h]
  /\ ret' = None
  /\ UNCHANGED <<pos, faults>>
  /\ CASE o.op = "return" ->
            /\ stack' = SubSeq(stack, 1, Len(stack) - 1)
            /\ retflow' = o.c.flow
            /\ net' = net
            /\ log' = Append(log, [ev |-> "return", fn |-> Top.fn, pos |-> pos,
                                   depth |-> Len(stack), result |-> o.c.flow.result,
                                   root_cause |-> o.c.flow.root_cause,
                                   exc |-> o.exc, assigned |-> Assigned(o)])
       [] o.op = "send" ->
            /\ stack' = [stack EXCEPT ![Len(stack)] =
                           [@ EXCEPT !.pc = o.pc, !.flow = o.c.flow]]
            /\ retflow' = None
            /\ net' = Append(net, o.req)
            /\ log' = Append(log, [ev |-> "request", fn |-> Top.fn, pos |-> pos,
                                   depth |-> Len(stack), call |-> o.req.call,
                                   token |-> o.req.token,
                                   assigned |-> Assigned(o)])
       [] o.op = "call" ->
            /\ stack' = Append([stack EXCEPT ![Len(stack)] =
                                  [@ EXCEPT !.pc = o.pc, !.flow = o.c.flow]],
                               Frame(o.fn, None))
            /\ retflow' = None
            /\ net' = net
            /\ log' = Append(log, [ev |-> "call", fn |-> o.fn, pos |-> pos,
                                   depth |-> Len(stack) + 1, absent |-> Absent,
                                   assigned |-> Assigned(o)])

\* the procedure fn is on top of the stack and not waiting for the network
Runs(fn) ==
  /\ stack # <<>>
  /\ net = <<>>
  /\ Top.fn = fn
  /\ Top.pc = "start" \/ ret # None \/ retflow # None

\* mutant: a step that returned FAIL is called once more before the run
\* goes on
run_all_tests_retries ==
  /\ stack = <<>>
  /\ pos <= Len(Schedule)
  /\ LET again == /\ pos >= 1
                  /\ retflow.result = "FAIL"
                  /\ Cardinality({i \in 1..Len(log) :
                                    /\ log[i].ev = "call"
                                    /\ log[i].depth = 1
                                    /\ log[i].pos = pos}) < 2
     IN IF again
          THEN /\ stack' = <<Frame(Schedule[pos].fn, Schedule[pos].arg)>>
               /\ log' = Append(log, [ev |-> "call", fn |-> Schedule[pos].fn,
                                      pos |-> pos, depth |-> 1,
                                      absent |-> Absent])
               /\ UNCHANGED <<report, pos>>
          ELSE /\ report' =
                    LET r1 == IF pos >= 1 /\ Schedule[pos].recorded
                                THEN add_flow(report, retflow) ELSE report
                    IN IF pos = Len(Schedule)
                         THEN [r1 EXCEPT !.end_time = JStr("now")] ELSE r1
               /\ IF pos < Len(Schedule)
                    THEN /\ stack' = <<Frame(Schedule[pos + 1].fn,
                                             Schedule[pos + 1].arg)>>
                         /\ log' = Append(log, [ev |-> "call",
                                                fn |-> Schedule[pos + 1].fn,
                                                pos |-> pos + 1, depth |-> 1,
                                                absent |-> Absent])
                    ELSE UNCHANGED <<stack, log>>
               /\ pos' = pos + 1
  /\ retflow' = None
  /\ UNCHANGED <<net, ret, session, writes, faults>>

\* mutant: the run stops at the first step that fails
run_all_tests_halts ==
  /\ stack = <<>>
  /\ pos <= Len(Schedule)
  /\ pos >= 1 => retflow.result # "FAIL"
  /\ report' =
       LET r1 == IF pos >= 1 /\ Schedule[pos].recorded
                   THEN add_flow(report, retflow) ELSE report
       IN IF pos = Len(Schedule) THEN [r1 EXCEPT !.end_time = JStr("now")] ELSE r1
  /\ IF pos < Len(Schedule)
       THEN /\ stack' = <<Frame(Schedule[pos + 1].fn, Schedule[pos + 1].arg)>>
            /\ log' = Append(log, [ev |-> "call", fn |-> Schedule[pos + 1].fn,
                                   pos |-> pos + 1, depth |-> 1,
                                   absent |-> Absent])
       ELSE UNCHANGED <<stack, log>>
  /\ pos' = pos + 1
  /\ retflow' = None
  /\ UNCHANGED <<net, ret, session, writes, faults>>

\* mutant: the flow of every call is recorded, the re-seeding one included
run_all_tests_records_all ==
  /\ stack = <<>>
  /\ pos <= Len(Schedule)
  /\ report' =
       LET r1 == IF pos >= 1 THEN add_flow(report, retflow) ELSE report
       IN IF pos = Len(Schedule) THEN [r1 EXCEPT !.end_time = JStr("now")] ELSE r1
  /\ IF pos < Len(Schedule)
       THEN /\ stack' = <<Frame(Schedule[pos + 1].fn, Schedule[pos + 1].arg)>>
            /\ log' = Append(log, [ev |-> "call", fn |-> Schedule[pos + 1].fn,
                                   pos |-> pos + 1, depth |-> 1,
                                   absent |-> Absent])
       ELSE UNCHANGED <<stack, log>>
  /\ pos' = pos + 1
  /\ retflow' = None
  /\ UNCHANGED <<net, ret, session, writes, faults>>

\* mutant: the next step is started while the request of the current one is
\* still in flight
run_all_tests_overlaps ==
  /\ stack = <<>> \/ net # <<>>
  /\ pos <= Len(Schedule)
  /\ report' =
       LET r1 == IF pos >= 1 /\ Schedule[pos].recorded /\ retflow # None
                   THEN add_flow(report, retflow) ELSE report
       IN IF pos = Len(Schedule) THEN [r1 EXCEPT !.end_time = JStr("now")] ELSE r1
  /\ IF pos < Len(Schedule)
       THEN /\ stack' = <<Frame(Schedule[pos + 1].fn, Schedule[pos + 1].arg)>>
            /\ log' = Append(log, [ev |-> "call", fn |-> Schedule[pos + 1].fn,
                                   pos |-> pos + 1, depth |-> 1,
                                   absent |-> Absent])
       ELSE UNCHANGED <<stack, log>>
  /\ pos' = pos + 1
  /\ retflow' = None
  /\ UNCHANGED <<net, ret, session, writes, faults>>

\* run_all_tests between two step procedures: add_flow of the flow just
\* returned, then the next call, or end_time after the last one
run_all_tests ==
  /\ stack = <<>>
  /\ pos <= Len(Schedule)
  /\ report' =
       LET r1 == IF pos >= 1 /\ Schedule[pos].recorded
                   THEN add_flow(report, retflow) ELSE report
       IN IF pos = Len(Schedule) THEN [r1 EXCEPT !.end_time = JStr("now")] ELSE r1
  /\ IF pos < Len(Schedule)
       THEN /\ stack' = <<Frame(Schedule[pos + 1].fn, Schedule[pos + 1].arg)>>
            /\ log' = Append(log, [ev |-> "call", fn |-> Schedule[pos + 1].fn,
                                   pos |-> pos + 1, depth |-> 1,
                                   absent |-> Absent])
       ELSE UNCHANGED <<stack, log>>
  /\ pos' = pos + 1
  /\ retflow' = None
  /\ UNCHANGED <<net, ret, session, writes, faults>>

\* mutant: make_request records the call in the health table itself
make_request_logs ==
  /\ net # <<>>
  /\ \E r \in Responses(Head(net), faults) :
       /\ ret' = make_request_result(Head(net).call, r)
       /\ faults' = IF r = Nominal(Head(net)) THEN faults
                    ELSE faults \cup {Fault(Head(net), r)}
  /\ net' = Tail(net)
  /\ log' = Append(log, [ev |-> "response", fn |-> Top.fn, pos |-> pos,
                         depth |-> Len(stack), call |-> ret'.call,
                         response |-> ret'.response])
  /\ report' = [report EXCEPT !.api_health =
                  log_api_call(ret'.call, Top.flow, @).api_health]
  /\ UNCHANGED <<pos, stack, retflow, session, writes>>

\* the request in flight completes: make_request returns (response, call)
make_request ==
  /\ net # <<>>
  /\ \E r \in Responses(Head(net), faults) :
       /\ ret' = make_request_result(Head(net).call, r)
       /\ faults' = IF r = Nominal(Head(net)) THEN faults
                    ELSE faults \cup {Fault(Head(net), r)}
  /\ net' = Tail(net)
  /\ log' = Append(log, [ev |-> "response", fn |-> Top.fn, pos |-> pos,
                         depth |-> Len(stack), call |-> ret'.call,
                         response |-> ret'.response])
  /\ UNCHANGED <<pos, stack, retflow, report, session, writes>>

test_user_registration == Runs("test_user_registration") /\ Apply(user_registration(Top))

test_user_login == Runs("test_user_login") /\ Apply(user_login(Top))

test_get_current_user == Runs("test_get_current_user") /\ Apply(get_current_user(Top))

test_jwt_expiration_handling == Runs("test_jwt_expiration_handling") /\ Apply(jwt_expiration_handling(Top))

test_get_categories == Runs("test_get_categories") /\ Apply(get_categories(Top))

test_get_products == Runs("test_get_products") /\ Apply(get_products(Top))

test_search_products == Runs("test_search_products") /\ Apply(search_products(Top))

test_get_product_detail == Runs("test_get_product_detail") /\ Apply(get_product_detail(Top))

test_create_address == Runs("test_create_address") /\ Apply(create_address(Top))

test_get_addresses == Runs("test_get_addresses") /\ Apply(get_addresses(Top))

test_get_cart == Runs("test_get_cart") /\ Apply(get_cart(Top))

test_add_to_cart == Runs("test_add_to_cart") /\ Apply(add_to_cart(Top))

test_update_cart_item == Runs("test_update_cart_item") /\ Apply(update_cart_item(Top))

test_remove_from_cart == Runs("test_remove_from_cart") /\ Apply(remove_from_cart(Top))

test_create_payment_intent == Runs("test_create_payment_intent") /\ Apply(create_payment_intent(Top))

test_get_orders == Runs("test_get_orders") /\ Apply(get_orders(Top))

test_get_order_detail == Runs("test_get_order_detail") /\ Apply(get_order_detail(Top))

test_admin_create_category == Runs("test_admin_create_category") /\ Apply(admin_create_category(Top))

test_admin_update_order_status == Runs("test_admin_update_order_status") /\ Apply(admin_update_order_status(Top))

test_admin_get_all_orders == Runs("test_admin_get_all_orders") /\ Apply(admin_get_all_orders(Top))

test_get_inventory == Runs("test_get_inventory") /\ Apply(get_inventory(Top))

test_reserve_inventory == Runs("test_reserve_inventory") /\ Apply(reserve_inventory(Top))

test_notification_service == Runs("test_notification_service") /\ Apply(notification_service(Top))

test_get_stores == Runs("test_get_stores") /\ Apply(get_stores(Top))

test_get_nearby_stores == Runs("test_get_nearby_stores") /\ Apply(get_nearby_stores(Top))

test_get_product_reviews == Runs("test_get_product_reviews") /\ Apply(get_product_reviews(Top))

test_cross_service_cart_order_flow == Runs("test_cross_service_cart_order_flow") /\ Apply(cross_service_cart_order_flow(Top))

Next ==
  \/ run_all_tests
  \/ make_request
  \/ test_user_registration
  \/ test_user_login
  \/ test_get_current_user
  \/ test_jwt_expiration_handling
  \/ test_get_categories
  \/ test_get_products
  \/ test_search_products
  \/ test_get_product_detail
  \/ test_create_address
  \/ test_get_addresses
  \/ test_get_cart
  \/ test_add_to_cart
  \/ test_update_cart_item
  \/ test_remove_from_cart
  \/ test_create_payment_intent
  \/ test_get_orders
  \/ test_get_order_detail
  \/ test_admin_create_category
  \/ test_admin_update_order_status
  \/ test_admin_get_all_orders
  \/ test_get_inventory
  \/ test_reserve_inventory
  \/ test_notification_service
  \/ test_get_stores
  \/ test_get_nearby_stores
  \/ test_get_product_reviews
  \/ test_cross_service_cart_order_flow

Spec == Init /\ [][Next]_vars

\* every request returns or times out (TIMEOUT) and the single thread of
\* control is never suspended for ever
FairSpec == Spec /\ WF_vars(Next)

-----------------------------------------------------------------------------
(* The history of a run *)

Calls == {i \in 1..Len(log) : log[i].ev = "call"}

MinOf(S) == CHOOSE x \in S : \A y \in S : x <= y

\* the index of the return of the invocation called at i, or Len(log) + 1
\* while it has not returned
EndOf(i) ==
  LET rs == {j \in (i + 1)..Len(log) :
               log[j].ev = "return" /\ log[j].depth = log[i].depth}
  IN IF rs = {} THEN Len(log) + 1 ELSE MinOf(rs)

Returned(i) == EndOf(i) <= Len(log)

\* the requests issued during the invocation called at i
RequestsOf(i) == {j \in Requests : i < j /\ j < EndOf(i)}

\* the APICall records of the recorded flows, by position
FlowApis ==
  UNION {{<<i, k>> : k \in 1..Len(report.flows[i].apis)} :
           i \in 1..Len(report.flows)}

FlowApi(ik) == report.flows[ik[1]].apis[ik[2]]

ServiceTags == {SERVICE_A, SERVICE_B, SERVICE_C}

HealthTotal(tag) ==
  IF tag \in DOMAIN report.api_health THEN report.api_health[tag].total ELSE 0

Results(flows) == {flows[i].result : i \in 1..Len(flows)}

-----------------------------------------------------------------------------
(* Claims *)

\* the session fields each step procedure tests before its requests
Requires(fn) ==
  CASE fn \in {"test_get_current_user", "test_create_address",
               "test_get_addresses", "test_get_cart", "test_get_orders"} ->
         {"customer_token"}
    [] fn \in {"test_get_product_detail", "test_get_inventory",
               "test_reserve_inventory", "test_get_product_reviews"} ->
         {"test_product_id"}
    [] fn = "test_add_to_cart" -> {"customer_token", "test_product_id"}
    [] fn \in {"test_update_cart_item", "test_remove_from_cart"} ->
         {"customer_token", "test_cart_item_id"}
    [] fn = "test_create_payment_intent" ->
         {"customer_token", "test_address_id", "test_cart_item_id"}
    [] fn = "test_get_order_detail" -> {"customer_token", "test_order_id"}
    [] fn \in {"test_admin_create_category", "test_admin_get_all_orders"} ->
         {"admin_token"}
    [] fn = "test_admin_update_order_status" -> {"admin_token", "test_order_id"}
    [] fn = "test_cross_service_cart_order_flow" ->
         {"customer_token", "test_address_id", "test_product_id"}
    [] OTHER -> {}

\* C1: a step that starts while a session field it depends on is absent
\* issues no request during the step and yields SKIPPED.
C1_AbsentFieldSkips ==
  \A i \in Calls :
    Requires(log[i].fn) \cap log[i].absent # {} =>
      /\ RequestsOf(i) = {}
      /\ Returned(i) => log[EndOf(i)].result = "SKIPPED"

\* C2: at the end of a run the health total of each service tag is the
\* number of APICall records with that tag in the recorded flows.
C2_HealthMatchesFlows ==
  Finished =>
    \A tag \in ServiceTags :
      HealthTotal(tag) =
        Cardinality({ik \in FlowApis : FlowApi(ik).service = JStr(tag)})

\* C3: at the end of a run every request issued through make_request has
\* its APICall in the apis list of exactly one recorded flow.
C3_EveryCallInOneFlow ==
  Finished =>
    \A j \in Requests :
      Cardinality({ik \in FlowApis : FlowApi(ik).obj = log[j].call.obj}) = 1

\* C4: between two steps the health total of each service tag is the number
\* of requests issued so far with that tag.
C4_HealthCountsRequests ==
  stack = <<>> =>
    \A tag \in ServiceTags :
      HealthTotal(tag) =
        Cardinality({j \in Requests : log[j].call.service = JStr(tag)})

\* C5 as claimed: every session field is assigned at most once in a run.
C5_AssignedAtMostOnce == \A f \in Fields : Len(writes[f]) <= 1

\* the step that creates the entity a session field refers to
Creator(f) ==
  CASE f \in {"customer_token", "customer_user_id"} -> "User Login (customer)"
    [] f \in {"admin_token", "admin_user_id"} -> "User Login (admin)"
    [] f = "test_address_id" -> "Create Address"
    [] f = "test_product_id" -> "Get Products"
    [] f = "test_category_id" -> "Get Categories"
    [] f = "test_order_id" -> "Create Payment Intent"
    [] f = "test_cart_item_id" -> "Add to Cart"

AddToCartPasses ==
  {j \in 1..Len(log) : /\ log[j].ev = "return"
                       /\ log[j].fn = "test_add_to_cart"
                       /\ log[j].result = "PASS"}

\* C5 as amended: every session field is assigned only by the step that
\* creates its entity; every field but the cart-item id at most once, and
\* the cart-item id once by each add-to-cart invocation that yields PASS
\* (the recorded step, the re-seeding call, the inline repair).
C5_AssignedByCreator ==
  /\ \A f \in Fields :
       \A k \in 1..Len(writes[f]) : writes[f][k] = Creator(f)
  /\ \A f \in Fields \ {"test_cart_item_id"} : Len(writes[f]) <= 1
  /\ Len(writes["test_cart_item_id"]) = Cardinality(AddToCartPasses)
  /\ Cardinality(AddToCartPasses) <= 3

\* the cart-item id has been assigned by all three add-to-cart invocations
C5_Witness == Finished /\ Len(writes["test_cart_item_id"]) = 3

\* C6: whatever the steps yield and the requests return, the run completes
\* with all 28 steps recorded.
C6_RunCompletes == <>(Finished /\ Len(report.flows) = 28)

\* a completed run in which a request failed at transport level, a step
\* failed and a later step was skipped
C6_Witness ==
  /\ Finished
  /\ Len(report.flows) = 28
  /\ {"FAIL", "SKIPPED"} \subseteq Results(report.flows)
  /\ \E ik \in FlowApis : FlowApi(ik).response_time = None

\* the names of the steps in the order run_all_tests records them
StepNames ==
  <<"User Registration", "User Login (customer)", "User Login (admin)",
    "Get Current User", "JWT Expiration Handling",
    "Get Categories", "Get Products", "Search Products", "Get Product Detail",
    "Create Address", "Get Addresses",
    "Get Cart", "Add to Cart", "Update Cart Item", "Remove from Cart",
    "Create Payment Intent",
    "Get Orders", "Get Order Detail",
    "Admin Create Category", "Admin Update Order Status", "Admin Get All Orders",
    "Get Inventory", "Reserve Inventory",
    "Notification Service",
    "Get Stores", "Get Nearby Stores", "Get Product Reviews",
    "Cross-Service: Product -> Cart -> Order">>

\* C7: the recorded flow list is always a prefix of the fixed sequence of
\* the 28 step names, whatever the outcomes.
C7_FlowsPrefixOfStepNames ==
  /\ Len(report.flows) <= Len(StepNames)
  /\ \A i \in 1..Len(report.flows) : report.flows[i].name = StepNames[i]

\* all 28 flows are recorded and some steps did not pass
C7_Witness ==
  /\ Len(report.flows) = 28
  /\ {"FAIL", "SKIPPED", "PASS"} \subseteq Results(report.flows)

\* C8: for every recorded flow list get_summary gives total = the number of
\* flows = passed + failed + warnings + skipped.
C8_SummaryAddsUp ==
  LET sm == get_summary(report)
  IN /\ sm.total = Len(report.flows)
     /\ sm.total = sm.passed + sm.failed + sm.warnings + sm.skipped

\* a flow list in which all four outcomes occur
C8_Witness == Results(report.flows) = TestResult

\* the login step has its response and is about to classify it
LoginClassifies == Runs("test_user_login") /\ ret # None /\ StatusIs(200)

LoginTokenField == IF Top.arg.role = "customer" THEN "customer_token" ELSE "admin_token"

LoginUserField ==
  IF Top.arg.role = "customer" THEN "customer_user_id" ELSE "admin_user_id"

\* body.get(k) of a decoded body, None when the body is no object
BodyGet(k) == IF IsDict(Body) THEN Get(Body, k, None) ELSE None

\* C9: a 200 login response with a token and a user object yields PASS and
\* stores the token and the user id in the fields of the role; a 200 response
\* without the token or without the user yields FAIL and stores nothing.
C9_LoginClassification ==
  LoginClassifies =>
    LET o == user_login(Top)
        token == BodyGet("access_token")
        user  == BodyGet("user")
    IN /\ Truthy(token) /\ Truthy(user) /\ IsDict(user) =>
            /\ o.op = "return"
            /\ o.c.flow.result = "PASS"
            /\ o.c.s = [session EXCEPT ![LoginTokenField] = token,
                                       ![LoginUserField] = Get(user, "id", None)]
       /\ ~Truthy(token) \/ ~Truthy(user) =>
            /\ o.op = "return"
            /\ o.c.flow.result = "FAIL"
            /\ o.c.s = session
            /\ o.c.w = writes

\* the customer login failed on a 200 response without token or user, and
\* the admin login passed and stored its token
C9_Witness ==
  /\ Len(report.flows) >= 3
  /\ report.flows[2].result = "FAIL"
  /\ report.flows[2].apis[1].response_code = JInt(200)
  /\ report.flows[2].root_cause = JStr("Missing token or user in response")
  /\ session["customer_token"] = None
  /\ report.flows[3].result = "PASS"
  /\ session["admin_token"] = JStr("tokA")
  /\ session["admin_user_id"] = JInt(2)

CrossCalls == {i \in Calls : log[i].fn = "test_cross_service_cart_order_flow"}

CrossOrder ==
  <<"GET /catalog/products/{id}", "POST /cart/items",
    "POST /checkout/create-payment-intent">>

\* the position of request j among the requests issued so far
Ordinal(j) == Cardinality({k \in Requests : k <= j})

\* C10: the cross-service step issues product fetch, cart-add, payment
\* intent in this order; it yields PASS only if all three returned their
\* expected status; when the product fetch or the cart-add does not, the step
\* yields FAIL and issues no later sub-call.
C10_CrossServiceShortCircuit ==
  \A i \in CrossCalls :
    LET rq == RequestsOf(i)
        first == IF rq = {} THEN 0 ELSE Ordinal(MinOf(rq)) - 1
    IN /\ Cardinality(rq) <= 3
       /\ \A j \in rq : Endpoint(log[j].call) = CrossOrder[Ordinal(j) - first]
       /\ Returned(i) /\ Finished =>
            LET f == report.flows[Len(report.flows)]
                code(k) == f.apis[k].response_code
            IN /\ Len(f.apis) = Cardinality(rq)
               /\ \A k \in 1..Len(f.apis) :
                    f.apis[k].obj = first + k
               /\ f.result = "PASS" =>
                    /\ Len(f.apis) = 3
                    /\ code(1) = JInt(200) /\ code(2) = JInt(201)
                    /\ code(3) = JInt(200)
               /\ Len(f.apis) >= 1 /\ code(1) # JInt(200) =>
                    f.result = "FAIL" /\ Len(f.apis) = 1
               /\ Len(f.apis) >= 2 /\ code(2) # JInt(201) =>
                    f.result = "FAIL" /\ Len(f.apis) = 2

\* the cart-add of the cross-service step was refused and the step failed
\* after two requests
C10_Witness ==
  /\ Finished
  /\ LET f == report.flows[Len(report.flows)]
     IN /\ f.result = "FAIL"
        /\ Len(f.apis) = 2
        /\ f.apis[1].response_code = JInt(200)
        /\ f.apis[2].response_code # JInt(201)

\* the cross-service step has the answer of its payment-intent sub-call and
\* is about to classify it
CrossClassifies ==
  /\ Runs("test_cross_service_cart_order_flow")
  /\ Top.pc = "order"
  /\ ret # None

CrossFields == {"test_product_id", "test_cart_item_id", "test_order_id"}

Returns == {j \in 1..Len(log) : log[j].ev = "return"}

\* the place in report.flows of the flow returned by the call at position p
\* of the schedule
FlowIndex(p) == Cardinality({q \in 1..p : Schedule[q].recorded})

\* C12: an exception raised while a step executes is caught inside the step,
\* which returns FAIL with the exception text as root cause, whatever outcome
\* it had set before; run_all_tests records that flow and goes on.
C12_ExceptionBecomesFail ==
  \A j \in Returns :
    log[j].exc # None =>
      /\ log[j].result = "FAIL"
      /\ log[j].root_cause = log[j].exc
      /\ log[j].depth = 1 /\ Schedule[log[j].pos].recorded /\ pos > log[j].pos =>
           LET f == report.flows[FlowIndex(log[j].pos)]
           IN f.result = "FAIL" /\ f.root_cause = log[j].exc

\* Get Categories had set PASS for a list whose first element is no object,
\* data[0].get raised, and the run went on to its end
C12_Witness ==
  /\ Finished
  /\ \E j \in Returns : /\ log[j].fn = "test_get_categories"
                        /\ log[j].exc = JStr(EGet)
  /\ report.flows[6].result = "FAIL"

\* what make_request has returned so far, by place in the history
Answers == {j \in 1..Len(log) : log[j].ev = "response"}

\* the return of the step that got the answer at j, or Len(log) + 1 while it
\* has not returned
StepReturn(j) ==
  LET rs == {k \in (j + 1)..Len(log) :
               log[k].ev = "return" /\ log[k].depth = log[j].depth}
  IN IF rs = {} THEN Len(log) + 1 ELSE MinOf(rs)

StepReturned(j) == StepReturn(j) <= Len(log)

\* the answer at j has a status, and not the one its step compares it with
UnexpectedStatus(j) ==
  /\ log[j].response # None
  /\ log[j].response.status_code # SuccessStatus(Endpoint(log[j].call))

\* C13: when a request of a step other than the invalid-credential step is
\* answered with a status that is not the expected success code, the step
\* yields FAIL with the call's error summary, or else the formatted status
\* code, as root cause.
C13_UnexpectedStatusFails ==
  \A j \in Answers :
    /\ log[j].fn # "test_jwt_expiration_handling"
    /\ UnexpectedStatus(j)
    /\ StepReturned(j)
    => /\ log[StepReturn(j)].result = "FAIL"
       /\ log[StepReturn(j)].root_cause = ErrOrStatus(log[j].call)

\* C14: when a request of a step fails at transport level (make_request
\* returns no response and a call with status 500), the step yields FAIL.
C14_TransportFailureFails ==
  \A j \in Answers :
    /\ log[j].response = None
    /\ StepReturned(j)
    => /\ log[j].call.response_code = JInt(500)
       /\ log[StepReturn(j)].result = "FAIL"

\* the endpoints whose step tests isinstance(data, list)
ListEndpoints ==
  {"GET /catalog/categories", "GET /catalog/products",
   "GET /catalog/search?q=product", "GET /addresses", "GET /orders",
   "GET /orders/admin/all", "GET /stores", "GET /stores/nearby",
   "GET /reviews/product/{id}"}

\* the keys the step procedure fn tests in the object it gets from the
\* endpoint ep; no entry for a request whose body the step does not test
RequiredKeys(fn, ep) ==
  CASE ep \in {"POST /auth/signup", "POST /auth/login"} -> {"access_token", "user"}
    [] ep = "GET /auth/me" /\ fn = "test_get_current_user" -> {"id", "email"}
    [] ep = "GET /catalog/products/{id}" /\ fn = "test_get_product_detail" ->
         {"id", "name"}
    [] ep = "GET /cart" -> {"items"}
    [] ep = "POST /cart/items" /\ fn = "test_add_to_cart" -> {"items"}
    [] ep = "POST /checkout/create-payment-intent" ->
         IF fn = "test_create_payment_intent"
           THEN {"client_secret", "order_id"} ELSE {"order_id"}
    [] ep = "GET /orders/{id}" -> {"id", "order_number"}
    [] ep = "POST /catalog/admin/categories" -> {"id"}
    [] ep = "POST /orders/{id}/status" -> {"status"}
    [] ep = "GET /inventory/{sku}" -> {"quantity", "available"}
    [] ep = "POST /inventory/reserve" -> {"success"}
    [] OTHER -> {}

\* the answer at j has the expected success status and a decoded body that
\* is not the sequence, or not an object with the keys, its step tests for
ShapeViolated(j) ==
  LET ep   == Endpoint(log[j].call)
      body == log[j].response.body
      keys == RequiredKeys(log[j].fn, ep)
  IN /\ log[j].response # None
     /\ log[j].response.status_code = SuccessStatus(ep)
     /\ body.t # "invalid"
     /\ \/ ep \in ListEndpoints /\ ~IsList(body)
        \/ /\ keys # {}
           /\ ~IsDict(body) \/ \E k \in keys : k \notin DOMAIN body.m

\* C15: a response with the expected success status whose body does not have
\* the shape the step tests for makes the step yield WARNING, never FAIL.
C15_ShapeViolationWarns ==
  \A j \in Answers :
    ShapeViolated(j) /\ StepReturned(j) => log[StepReturn(j)].result = "WARNING"

JwtAnswers == {j \in Answers : log[j].fn = "test_jwt_expiration_handling"}

\* C16: the invalid-credential step sends GET /auth/me with the token
\* "invalid.jwt.token" and yields PASS if and only if the answer has status
\* 401; every other status yields WARNING.
C16_InvalidTokenRejected ==
  \A j \in JwtAnswers :
    /\ Endpoint(log[j].call) = "GET /auth/me"
    /\ \E k \in Requests : /\ log[k].call.obj = log[j].call.obj
                           /\ log[k].token = JStr("invalid.jwt.token")
    /\ StepReturned(j) =>
         LET res == log[StepReturn(j)].result
             is401 == log[j].response # None /\ log[j].response.status_code = 401
         IN /\ res = "PASS" <=> is401
            /\ log[j].response # None /\ ~is401 => res = "WARNING"

\* the endpoint accepted the invalid token with a 200 and the step returned
\* WARNING
C16_Witness ==
  \E j \in JwtAnswers :
    /\ log[j].response # None
    /\ log[j].response.status_code = 200
    /\ StepReturned(j)
    /\ log[StepReturn(j)].result = "WARNING"

AddToCartCalls == {i \in Calls : log[i].fn = "test_add_to_cart"}

\* C17 as claimed: once an add-to-cart attempt has ended in FAIL or SKIPPED,
\* no later add-to-cart attempt of the run issues a request.
C17_NoSecondAddToCart ==
  \A i, i2 \in AddToCartCalls :
    /\ i < i2
    /\ Returned(i)
    /\ log[EndOf(i)].result \in {"FAIL", "SKIPPED"}
    => RequestsOf(i2) = {}

\* C17 as amended: run_all_tests makes each call of its schedule exactly
\* once, whatever the call before it returned; no step sends a request to the
\* same endpoint twice within one call; add-to-cart is called by the schedule
\* (the recorded step and the re-seeding call) and, when the cart-item id is
\* absent, once more from inside Create Payment Intent, whatever the earlier
\* add-to-cart attempts returned.
C17_OneAttemptPerCall ==
  /\ \A p \in 1..Len(Schedule) :
       Cardinality({i \in Calls : log[i].depth = 1 /\ log[i].pos = p})
         = IF p <= pos THEN 1 ELSE 0
  /\ \A i \in Calls : log[i].depth = 1 => log[i].fn = Schedule[log[i].pos].fn
  /\ \A j, k \in Requests :
       j # k /\ log[j].pos = log[k].pos /\ log[j].depth = log[k].depth
         => Endpoint(log[j].call) # Endpoint(log[k].call)
  /\ \A i \in Calls :
       log[i].depth > 1 =>
         /\ log[i].depth = 2
         /\ log[i].fn = "test_add_to_cart"
         /\ Schedule[log[i].pos].fn = "test_create_payment_intent"
         /\ "test_cart_item_id" \in log[i].absent
  /\ Cardinality(AddToCartCalls) <= 3

\* the recorded Add to Cart step failed and both the re-seeding call and the
\* inline call of Create Payment Intent sent requests afterwards
C17_Witness ==
  /\ Finished
  /\ report.flows[13].result = "FAIL"
  /\ Cardinality({i \in AddToCartCalls : RequestsOf(i) # {}}) = 3

-----------------------------------------------------------------------------
(* log_api_call on its own: any calls, in any order *)

\* APICall records as make_request returns them (a status in and around
\* [200, 300), the status 500 of a transport failure, a latency measured as
\* zero) or as they are before the request (no status), with and without a
\* service tag
CallPool ==
  {[APICall(0, Url("/x", None), "GET", None, svc)
      EXCEPT !.response_code = o[1], !.response_time = o[2]] :
     svc \in {JStr("A"), JStr("B"), None},
     o \in {<<JInt(200), JInt(1)>>, <<JInt(299), JInt(2)>>, <<JInt(300), JInt(1)>>,
            <<JInt(404), JInt(1)>>, <<JInt(500), None>>, <<None, None>>,
            <<JInt(200), JInt(0)>>}}

\* a fresh engine and a fresh flow
HealthInit ==
  /\ pos = 0
  /\ stack = <<>>
  /\ net = <<>>
  /\ ret = None
  /\ retflow = TestFlow("flow", "A")
  /\ report = QAReport
  /\ session = [f \in Fields |-> None]
  /\ writes = [f \in Fields |-> <<>>]
  /\ faults = {}
  /\ log = <<>>

\* self.log_api_call(call, flow) for one more call
HealthRecord ==
  /\ Len(retflow.apis) < MaxCalls
  /\ \E call \in CallPool :
       LET r == log_api_call(call, retflow, report.api_health)
       IN /\ retflow' = r.flow
          /\ report' = [report EXCEPT !.api_health = r.api_health]
  /\ UNCHANGED <<pos, stack, net, ret, session, writes, faults, log>>

HealthNext == HealthRecord

HealthSpec == HealthInit /\ [][HealthNext]_vars

\* the health table after recording the calls one after the other into a
\* fresh table
RECURSIVE HealthOf(_)
HealthOf(calls) ==
  IF calls = <<>> THEN EmptyMap
  ELSE log_api_call(calls[Len(calls)], TestFlow("flow", "A"),
                    HealthOf(SubSeq(calls, 1, Len(calls) - 1))).api_health

Counters(h) ==
  [s \in DOMAIN h |-> <<h[s].total, h[s].success, h[s].failures>>]

\* C18: recording the same calls in any order gives the same total, success
\* and failures for every service tag.
C18_CountersOrderIndependent ==
  LET calls == retflow.apis
      n     == Len(calls)
  IN \A p \in Permutations(1..n) :
       Counters(HealthOf([i \in 1..n |-> calls[p[i]]]))
         = Counters(report.api_health)

\* three calls of one service were recorded, a failure before a success
C18_Witness ==
  /\ Len(retflow.apis) = 3
  /\ \A i \in 1..3 : retflow.apis[i].service = JStr("A")
  /\ retflow.apis[1].response_code = JInt(500)
  /\ retflow.apis[2].response_code = JInt(200)
  /\ report.api_health["A"].success = 1

\* the recorded calls that carry the service tag s
Tagged(s) == {i \in 1..Len(retflow.apis) : retflow.apis[i].service = JStr(s)}

InSuccessRange(code) == code # None /\ code.n >= 200 /\ code.n <= 299

\* C19: after any sequence of log_api_call every service entry has
\* total = success + failures, success being the number of recorded calls of
\* the service with a status in [200, 300) and failures the number of its
\* other recorded calls; a service has an entry once a call of it is recorded.
C19_HealthCounters ==
  /\ DOMAIN report.api_health = {s \in {"A", "B", "C", "A+B"} : Tagged(s) # {}}
  /\ \A s \in DOMAIN report.api_health :
       LET h  == report.api_health[s]
           ok == {i \in Tagged(s) : InSuccessRange(retflow.apis[i].response_code)}
       IN /\ h.total = h.success + h.failures
          /\ h.total = Cardinality(Tagged(s))
          /\ h.success = Cardinality(ok)
          /\ h.failures = Cardinality(Tagged(s) \ ok)

\* a service has a success, a redirect counted as failure and a call without
\* status counted as failure
C19_Witness ==
  /\ "B" \in DOMAIN report.api_health
  /\ report.api_health["B"].success = 1
  /\ report.api_health["B"].failures = 2
  /\ \E i, k \in Tagged("B") : /\ retflow.apis[i].response_code = JInt(300)
                               /\ retflow.apis[k].response_code = None

-----------------------------------------------------------------------------
(* get_summary on its own: any flow list *)

\* n flows with the result res
FlowsOf(n, res) == [i \in 1..n |-> [TestFlow("flow", "A") EXCEPT !.result = res]]

\* the flow lists of up to MaxFlows flows, up to the order of the flows
\* (get_summary only counts)
FlowLists ==
  UNION {UNION {{FlowsOf(a, "PASS") \o FlowsOf(b, "FAIL") \o FlowsOf(c, "WARNING")
                   \o FlowsOf(d, "SKIPPED") :
                   d \in 0..(MaxFlows - a - b - c)} :
                c \in 0..(MaxFlows - a - b)} :
           <<a, b>> \in {ab \in (0..MaxFlows) \X (0..MaxFlows) :
                           ab[1] + ab[2] <= MaxFlows}}

SummaryInit ==
  /\ pos = 0
  /\ stack = <<>>
  /\ net = <<>>
  /\ ret = None
  /\ retflow = None
  /\ \E flows \in FlowLists : report = [QAReport EXCEPT !.flows = flows]
  /\ session = [f \in Fields |-> None]
  /\ writes = [f \in Fields |-> <<>>]
  /\ faults = {}
  /\ log = <<>>

\* summary = self.report.get_summary()
SummaryGet ==
  /\ ret = None
  /\ ret' = get_summary(report)
  /\ UNCHANGED <<pos, stack, net, retflow, report, session, writes, faults, log>>

SummaryNext == SummaryGet

SummarySpec == SummaryInit /\ [][SummaryNext]_vars

Passed == Cardinality({i \in 1..Len(report.flows) : report.flows[i].result = "PASS"})

\* C20: get_summary gives the success rate "0%" for the empty flow list and
\* otherwise passed / total as a percentage with one decimal: the number of
\* tenths of a percent nearest to 1000 * passed / total.
C20_SuccessRate ==
  ret # None =>
    LET total == Len(report.flows)
        rate  == ret.success_rate
    IN IF total = 0
         THEN rate = [fmt |-> "0%"]
         ELSE /\ rate.fmt = ".1f%"
              /\ rate.tenths \in 0..1000
              /\ 2 * (rate.tenths * total - 1000 * Passed) <= total
              /\ 2 * (1000 * Passed - rate.tenths * total) <= total

\* the summary of 16 flows of which 1 passed: 6.25 is printed as 6.2%
C20_Witness ==
  /\ ret # None
  /\ Len(report.flows) = 16
  /\ Passed = 1
  /\ ret.success_rate = [fmt |-> ".1f%", tenths |-> 62]

-----------------------------------------------------------------------------
(* Claims on the ordering of the cart and checkout phases *)

\* the calls of Create Payment Intent by run_all_tests
IntentCalls == {i \in Calls : log[i].fn = "test_create_payment_intent"}

IntentEndpoint == "POST /checkout/create-payment-intent"

\* the create-payment-intent requests issued by the invocation called at i
IntentRequestsOf(i) ==
  {j \in RequestsOf(i) : /\ log[j].depth = log[i].depth
                         /\ Endpoint(log[j].call) = IntentEndpoint}

\* the invocation called at i started with a token and an address id and
\* without a cart-item id
NeedsRepair(i) ==
  /\ i \in IntentCalls
  /\ {"customer_token", "test_address_id"} \cap log[i].absent = {}
  /\ "test_cart_item_id" \in log[i].absent

\* C21: when Create Payment Intent starts with a token and an address id but
\* no cart-item id, the first thing it does is call add-to-cart; if that call
\* returns anything but PASS, the step returns SKIPPED at once with no
\* create-payment-intent request; if it returns PASS, the step's next move is
\* the create-payment-intent request.
C21_InlineRepair ==
  \A i \in IntentCalls :
    NeedsRepair(i) /\ i < Len(log) =>
      LET a == i + 1
          e == EndOf(a)
      IN /\ log[a].ev = "call"
         /\ log[a].fn = "test_add_to_cart"
         /\ log[a].depth = log[i].depth + 1
         /\ Returned(a) /\ e < Len(log) =>
              IF log[e].result # "PASS"
                THEN /\ log[e + 1].ev = "return"
                     /\ log[e + 1].depth = log[i].depth
                     /\ log[e + 1].result = "SKIPPED"
                     /\ IntentRequestsOf(i) = {}
                ELSE /\ log[e + 1].ev = "request"
                     /\ log[e + 1].depth = log[i].depth
                     /\ Endpoint(log[e + 1].call) = IntentEndpoint

\* the inline add-to-cart sent its POST /cart/items, failed, and Create
\* Payment Intent was recorded as SKIPPED without a request of its own
C21_Witness ==
  /\ Finished
  /\ \E i \in IntentCalls :
       /\ NeedsRepair(i)
       /\ log[EndOf(i + 1)].result = "FAIL"
       /\ \E j \in RequestsOf(i + 1) : Endpoint(log[j].call) = "POST /cart/items"
  /\ report.flows[16].result = "SKIPPED"
  /\ report.flows[16].root_cause = JStr("Could not add item to cart")
  /\ report.flows[16].apis = <<>>

\* the answers the product-detail step got with status 200
DetailAnswers ==
  {j \in Answers : /\ log[j].fn = "test_get_product_detail"
                   /\ log[j].response # None
                   /\ log[j].response.status_code = 200}

\* C22: the product-detail step yields PASS when the body of the 200 response
\* is an object with the keys id and name, and WARNING when the body of the
\* 200 response is a list.
C22_ProductDetail ==
  \A j \in DetailAnswers :
    StepReturned(j) =>
      LET body == log[j].response.body
          res  == log[StepReturn(j)].result
      IN /\ IsDict(body) /\ {"id", "name"} \subseteq DOMAIN body.m => res = "PASS"
         /\ IsList(body) => res = "WARNING"

-----------------------------------------------------------------------------
(* Claims on the request primitive *)

\* the messages of the exceptions self.client.request raises
TransportMessages == {JStr(f.msg) : f \in {g \in GenericFaults : g.kind = "exc"}}

\* every request issued so far has been answered or is the one in flight,
\* and its answer is the next thing that happens: make_request returns to
\* the step that called it
RequestsReturn ==
  \A j \in Requests :
    j < Len(log) => /\ log[j + 1].ev = "response"
                    /\ log[j + 1].call.obj = log[j].call.obj
                    /\ log[j + 1].fn = log[j].fn
                    /\ log[j + 1].depth = log[j].depth

\* a transport failure gives no response object, the status 500 and the
\* message of the exception as error
TransportSentinel ==
  \A j \in Answers :
    log[j].response = None =>
      /\ log[j].call.response_code = JInt(500)
      /\ log[j].call.error \in TransportMessages
      /\ log[j].call.response_time = None

\* a response gives its own status
RealStatus ==
  \A j \in Answers :
    log[j].response # None =>
      /\ log[j].call.response_code = JInt(log[j].response.status_code)
      /\ log[j].call.response_time # None

\* C23 as claimed: make_request never raises; a transport failure gives the
\* status 500 and the exception message and no response; a response with a
\* status of 400 or more gives the real status and an error summary that is
\* not null.
C23_ErrorNeverNull ==
  /\ RequestsReturn
  /\ TransportSentinel
  /\ RealStatus
  /\ \A j \in Answers :
       log[j].response # None /\ log[j].response.status_code >= 400
         => log[j].call.error # None

\* C23 as amended: as above, but the error summary of a response with a
\* status of 400 or more is the value of "detail" when the body is a JSON
\* object that has the key, null included, and the raw text otherwise; a
\* response with a status below 400 has no error summary.
C23_MakeRequestReturns ==
  /\ RequestsReturn
  /\ TransportSentinel
  /\ RealStatus
  /\ \A j \in Answers :
       log[j].response # None =>
         LET r == log[j].response IN
         log[j].call.error =
           IF r.status_code < 400 THEN None
           ELSE IF IsDict(r.body) /\ "detail" \in DOMAIN r.body.m
             THEN r.body.m["detail"]
           ELSE IF r.body.t = "invalid" THEN JStr(r.body.text)
           ELSE JStr("<json>")

\* a 422 whose body is an object with a null detail was returned with a null
\* error summary, and the step that got it failed with the formatted status
C23_Witness ==
  \E j \in Answers :
    /\ log[j].response # None
    /\ log[j].response.status_code = 422
    /\ log[j].call.response_code = JInt(422)
    /\ log[j].call.error = None
    /\ StepReturned(j)
    /\ log[StepReturn(j)].result = "FAIL"
    /\ log[StepReturn(j)].root_cause = JStr("Status 422")

-----------------------------------------------------------------------------
(* An operator interrupt during the run *)

Interrupts == {j \in 1..Len(log) : log[j].ev = "interrupt"}

\* the process is in the KeyboardInterrupt handler of __main__, about to exit
Interrupted ==
  stack = <<[Frame("__main__", None) EXCEPT !.pc = "KeyboardInterrupt"]>>

\* KeyboardInterrupt is raised while run_all_tests runs, anywhere but inside
\* the bare except of make_request: it is no Exception, so neither
\* make_request nor the step catches it, and it ends run_all_tests and is
\* caught in __main__, which prints a message; generate_report is not called
KeyboardInterrupt ==
  /\ pos <= Len(Schedule)
  /\ ~Interrupted
  /\ Cardinality(Interrupts) < MaxInterrupts
  /\ stack' = <<[Frame("__main__", None) EXCEPT !.pc = "KeyboardInterrupt"]>>
  /\ net' = <<>>
  /\ ret' = None
  /\ retflow' = None
  /\ log' = Append(log, [ev |-> "interrupt", pos |-> pos, depth |-> Len(stack),
                         caught_by |-> "__main__"])
  /\ UNCHANGED <<pos, report, session, writes, faults>>

\* KeyboardInterrupt is raised while make_request decodes the body of a
\* response with a status of 400 or more: the bare except catches it, sets
\* call.error = response.text[:100], and make_request returns as usual
KeyboardInterrupt_in_make_request ==
  /\ net # <<>>
  /\ Cardinality(Interrupts) < MaxInterrupts
  /\ \E r \in Responses(Head(net), faults) :
       /\ r.kind = "resp"
       /\ r.status_code >= 400
       /\ ret' = [make_request_result(Head(net).call, r)
                    EXCEPT !.call.error = Text100(r)]
       /\ faults' = IF r = Nominal(Head(net)) THEN faults
                    ELSE faults \cup {Fault(Head(net), r)}
  /\ net' = Tail(net)
  /\ log' = log \o <<[ev |-> "interrupt", pos |-> pos, depth |-> Len(stack),
                      caught_by |-> "make_request"],
                     [ev |-> "response", fn |-> Top.fn, pos |-> pos,
                      depth |-> Len(stack), call |-> ret'.call,
                      response |-> ret'.response]>>
  /\ UNCHANGED <<pos, stack, retflow, report, session, writes>>

InterruptNext ==
  \/ Next
  \/ KeyboardInterrupt
  \/ KeyboardInterrupt_in_make_request

InterruptSpec == Init /\ [][InterruptNext]_vars

\* the returns of the recorded calls of run_all_tests whose flow has been
\* appended to the report
Appended ==
  {j \in Returns : /\ log[j].depth = 1
                   /\ Schedule[log[j].pos].recorded
                   /\ FlowIndex(log[j].pos) <= Len(report.flows)}

\* the flow list holds the flows of the first steps of the fixed order, each
\* with the outcome and root cause its step returned
ResultsIntact ==
  /\ Len(report.flows) <= Len(StepNames)
  /\ \A i \in 1..Len(report.flows) : report.flows[i].name = StepNames[i]
  /\ \A j \in Appended :
       LET f == report.flows[FlowIndex(log[j].pos)]
       IN f.result = log[j].result /\ f.root_cause = log[j].root_cause

\* C24: an operator interrupt at any point of the run ends the process in
\* the handler of __main__, nothing of the run happens after it, and the
\* flow list is then a prefix of the fixed step order whose flows have the
\* outcomes they had when appended.
C24_InterruptTerminates ==
  \A j \in Interrupts :
    /\ j = Len(log)
    /\ Interrupted
    /\ net = <<>>
    /\ ResultsIntact

-----------------------------------------------------------------------------
(* Claims on the order of the dependent steps *)

\* the create-payment-intent requests of the Create Payment Intent step
IntentRequests ==
  {j \in Requests : /\ log[j].fn = "test_create_payment_intent"
                    /\ Endpoint(log[j].call) = IntentEndpoint}

\* the returns of Remove from Cart with PASS
RemovePasses ==
  {j \in Returns : log[j].fn = "test_remove_from_cart" /\ log[j].result = "PASS"}

\* C25: the Create Payment Intent step issues its create-payment-intent
\* request only when some add-to-cart invocation (recorded step, re-seeding
\* call or inline repair) has returned PASS earlier in the run and after
\* every Remove from Cart that returned PASS.
C25_CartPopulatedBeforeCheckout ==
  \A j \in IntentRequests :
    \E k \in AddToCartPasses :
      /\ k < j
      /\ \A r \in RemovePasses : r < j => r < k

\* the requests whose URL carries the order id
OrderIdRequests ==
  {j \in Requests :
     Endpoint(log[j].call) \in {"GET /orders/{id}", "POST /orders/{id}/status"}}

\* the step fn yielded PASS to run_all_tests before the place j of the history
PassedBefore(fn, j) ==
  \E k \in Returns : /\ k < j
                     /\ log[k].fn = fn
                     /\ log[k].depth = 1
                     /\ log[k].result = "PASS"

\* the step that must have passed before the step fn sends anything
DependsOn(fn) ==
  CASE fn \in {"test_get_order_detail", "test_admin_update_order_status"} ->
         "test_create_payment_intent"
    [] fn \in {"test_create_payment_intent",
               "test_cross_service_cart_order_flow"} -> "test_create_address"

\* C26: a request with the order id in its URL (order detail, admin order
\* status) is issued only after Create Payment Intent yielded PASS, and a
\* create-payment-intent request only after Create Address yielded PASS; a
\* dependent step called without that PASS issues no request and yields
\* SKIPPED.
C26_DependencyOrder ==
  /\ \A j \in OrderIdRequests :
       /\ PassedBefore("test_create_payment_intent", j)
       /\ Truthy(log[j].call.url.arg)
  /\ \A j \in Requests :
       Endpoint(log[j].call) = IntentEndpoint
         => PassedBefore("test_create_address", j)
  /\ \A i \in Calls :
       /\ log[i].depth = 1
       /\ log[i].fn \in {"test_get_order_detail", "test_admin_update_order_status",
                         "test_create_payment_intent",
                         "test_cross_service_cart_order_flow"}
       /\ ~PassedBefore(DependsOn(log[i].fn), i)
       => /\ RequestsOf(i) = {}
          /\ Returned(i) => log[EndOf(i)].result = "SKIPPED"

\* Create Address passed, Create Payment Intent sent its request and failed,
\* and both steps on the order were skipped, the admin being logged in
C26_Witness ==
  /\ Finished
  /\ report.flows[10].result = "PASS"
  /\ report.flows[16].result = "FAIL"
  /\ Len(report.flows[16].apis) = 1
  /\ report.flows[18].result = "SKIPPED"
  /\ report.flows[20].result = "SKIPPED"
  /\ Truthy(session["admin_token"])

-----------------------------------------------------------------------------
(* Claims on what the steps leave behind *)

\* the places of the history at which a step procedure assigned a session
\* field
Assignments ==
  {j \in 1..Len(log) : "assigned" \in DOMAIN log[j] /\ log[j].assigned # {}}

\* the login at position p of the schedule has returned PASS
LoginPassed(p) ==
  \E k \in Returns : /\ log[k].fn = "test_user_login"
                     /\ log[k].pos = p
                     /\ log[k].result = "PASS"

\* C27: a session field is assigned only by a step invocation that returns
\* PASS: a step that returns FAIL, WARNING or SKIPPED has assigned none, and
\* whenever the customer or the admin token is set, the login of that role
\* returned PASS.
C27_WrittenOnlyOnPass ==
  /\ \A j \in Assignments : log[j].ev = "return" /\ log[j].result = "PASS"
  /\ session["customer_token"] # None => LoginPassed(2)
  /\ session["admin_token"] # None => LoginPassed(3)

\* C28: every recorded flow whose result is FAIL, WARNING or SKIPPED has a
\* root cause that is a non-empty string.
C28_RootCauseGiven ==
  \A i \in 1..Len(report.flows) :
    report.flows[i].result # "PASS" =>
      /\ report.flows[i].root_cause.t = "str"
      /\ report.flows[i].root_cause.s # ""

\* the place of the re-seeding self.test_add_to_cart() in the schedule
ReseedPos == CHOOSE p \in 1..Len(Schedule) : ~Schedule[p].recorded

\* C29: from the call of the re-seeding add-to-cart to the call of the step
\* after it, whatever the re-seeding call returns, no step of the program
\* changes the recorded flow list or the summary counted from it.
C29_ReseedNotRecorded ==
  [][pos = ReseedPos =>
       /\ report'.flows = report.flows
       /\ get_summary(report') = get_summary(report)]_vars

\* the re-seeding call sent both its requests and returned FAIL, and Create
\* Payment Intent has been called with the 15 flows of the steps before
C29_Witness ==
  /\ pos = ReseedPos + 1
  /\ Len(report.flows) = 15
  /\ \E i \in AddToCartCalls :
       /\ log[i].pos = ReseedPos
       /\ Cardinality(RequestsOf(i)) = 2
       /\ Returned(i)
       /\ log[EndOf(i)].result = "FAIL"

\* C30: every recorded flow whose result is SKIPPED has an empty list of
\* APICall records.
C30_SkippedHasNoCalls ==
  \A i \in 1..Len(report.flows) :
    report.flows[i].result = "SKIPPED" => report.flows[i].apis = <<>>

-----------------------------------------------------------------------------
(* Claims on the session fields *)

\* C31: a session field that holds a value other than None never becomes
\* None again, whatever the later steps do and return.
C31_NeverNullAgain ==
  [][\A f \in Fields : session[f] # None => session'[f] # None]_vars

\* the session fields that must hold a value before the step that assigns f
\* sends its request
Needs(f) ==
  CASE f = "test_order_id" -> {"customer_token", "test_address_id"}
    [] f = "test_cart_item_id" -> {"customer_token", "test_product_id"}
    [] f = "test_address_id" -> {"customer_token"}
    [] OTHER -> {}

\* C32: in every reachable state an order id implies a customer token and an
\* address id, a cart-item id implies a customer token and a product id, and
\* an address id implies a customer token.
C32_CreationDependencies ==
  \A f \in Fields :
    session[f] # None => \A g \in Needs(f) : session[g] # None

\* the order id, the cart-item id and the address id are all set
C32_Witness ==
  /\ session["test_order_id"] # None
  /\ session["test_cart_item_id"] # None
  /\ session["test_address_id"] # None
  /\ session["customer_token"] = JStr("tokC")

-----------------------------------------------------------------------------
(* Claims on the health table *)

HealthFailures(tag) ==
  IF tag \in DOMAIN report.api_health THEN report.api_health[tag].failures ELSE 0

\* the run is over and every recorded flow has the result PASS
AllPassed ==
  /\ Finished
  /\ \A i \in 1..Len(report.flows) : report.flows[i].result = "PASS"

\* the answers to the POST /cart/items of the re-seeding add-to-cart whose
\* status is no success
ReseedFailures ==
  {j \in Answers : /\ log[j].pos = ReseedPos
                   /\ Endpoint(log[j].call) = "POST /cart/items"
                   /\ ~IsSuccessCode(log[j].call.response_code)}

\* C33 as claimed: when every recorded flow of a finished run is PASS, the
\* failure count of every service in the health table is 0.
C33_NoFailuresWhenAllPass ==
  AllPassed => \A s \in DOMAIN report.api_health : report.api_health[s].failures = 0

\* C33 as amended: when every recorded flow of a finished run is PASS, the
\* failure counts of B and C are 0 and the failure count of A is 1, the 401
\* of the invalid-credential step, plus 1 more when the POST /cart/items of
\* the unrecorded re-seeding add-to-cart did not succeed.
C33_FailuresWhenAllPass ==
  AllPassed =>
    /\ DOMAIN report.api_health = ServiceTags
    /\ HealthFailures(SERVICE_B) = 0
    /\ HealthFailures(SERVICE_C) = 0
    /\ HealthFailures(SERVICE_A) = 1 + Cardinality(ReseedFailures)
    /\ Cardinality(ReseedFailures) <= 1
    /\ report.flows[5].apis[1].response_code = JInt(401)

\* all 28 flows passed although the re-seeding add-to-cart failed: service A
\* has two failures
C33_Witness ==
  /\ AllPassed
  /\ Len(report.flows) = 28
  /\ HealthFailures(SERVICE_A) = 2

\* the step procedures that create no entity
ReadingSteps ==
  {"test_get_current_user", "test_jwt_expiration_handling",
   "test_search_products", "test_get_product_detail", "test_get_addresses",
   "test_get_cart", "test_update_cart_item", "test_remove_from_cart",
   "test_get_orders", "test_get_order_detail", "test_admin_create_category",
   "test_admin_update_order_status", "test_admin_get_all_orders",
   "test_get_inventory", "test_reserve_inventory", "test_notification_service",
   "test_get_stores", "test_get_nearby_stores", "test_get_product_reviews"}

\* C34: from the call to the return of a step that creates no entity (Get
\* Current User, the invalid-credential step, Search Products, Get Product
\* Detail, Get Addresses, Get Cart, Update Cart Item, Remove from Cart, the
\* order, admin, inventory, notification, store and review steps) no session
\* field changes.
C34_ReadingStepsKeepSession ==
  [][stack # <<>> /\ Top.fn \in ReadingSteps => session' = session]_vars

\* Remove from Cart deleted the item and the cart-item id is still the one
\* Add to Cart stored
C34_Witness ==
  /\ \E j \in RemovePasses : log[j].pos = 15
  /\ pos = 15
  /\ stack = <<>>
  /\ session["test_cart_item_id"] = JInt(1)

\* the session fields of a role
RoleFields(role) ==
  IF role = "customer" THEN {"customer_token", "customer_user_id"}
  ELSE {"admin_token", "admin_user_id"}

\* C35: while the login step of one role runs, only the token and the user
\* id of that role may change: not the fields of the other role and no
\* entity id.
C35_LoginFrame ==
  [][stack # <<>> /\ Top.fn = "test_user_login" =>
       \A f \in Fields \ RoleFields(Top.arg.role) : session'[f] = session[f]]_vars

\* both logins have passed and each role has its own token and user id
C35_Witness ==
  /\ LoginPassed(2)
  /\ LoginPassed(3)
  /\ session["customer_token"] = JStr("tokC")
  /\ session["customer_user_id"] = JInt(1)
  /\ session["admin_token"] = JStr("tokA")
  /\ session["admin_user_id"] = JInt(2)

-----------------------------------------------------------------------------
(* Claims on the report and on the request primitive as a whole *)

\* C36: the flow list only grows, by one flow at a time and at its end, and
\* the flows already in it (name, result, calls, root cause) stay as they
\* were appended.
C36_FlowsAppendOnly ==
  [][/\ Len(report'.flows) \in {Len(report.flows), Len(report.flows) + 1}
     /\ SubSeq(report'.flows, 1, Len(report.flows)) = report.flows]_vars

\* the run is over and the first flow is still the FAIL with one call and
\* the root cause that User Registration returned
C36_Witness ==
  /\ Finished
  /\ Len(report.flows) = 28
  /\ report.flows[1].name = "User Registration"
  /\ report.flows[1].result = "FAIL"
  /\ Len(report.flows[1].apis) = 1
  /\ \E j \in Returns : /\ log[j].pos = 1
                        /\ log[j].result = "FAIL"
                        /\ log[j].root_cause = report.flows[1].root_cause

\* the calls run_all_tests has made
ScheduleCalls == {i \in Calls : log[i].depth = 1}

\* C37: at most one request is in flight; a request is issued only when all
\* earlier requests have been answered or have failed; run_all_tests calls
\* the steps of its schedule in order, each after the return of the one
\* before.
C37_OneRequestAtATime ==
  /\ Len(net) <= 1
  /\ Cardinality(Requests) = Cardinality(Answers) + Len(net)
  /\ RequestsReturn
  /\ Cardinality(ScheduleCalls) = IF pos <= Len(Schedule) THEN pos ELSE Len(Schedule)
  /\ \A i \in ScheduleCalls :
       /\ log[i].fn = Schedule[log[i].pos].fn
       /\ IF log[i].pos = 1
            THEN i = 1
            ELSE /\ log[i - 1].ev = "return"
                 /\ log[i - 1].depth = 1
                 /\ log[i - 1].pos = log[i].pos - 1
  /\ Len(stack) <= 2

\* the last request of the run is in flight and the 36 before it have been
\* answered, one of them with a transport failure
C37_Witness ==
  /\ Len(net) = 1
  /\ pos = Len(Schedule)
  /\ Endpoint(net[1].call) = IntentEndpoint
  /\ Cardinality(Answers) >= 30
  /\ \E j \in Answers : log[j].response = None

\* the recorded calls of service s whose latency was measured
Measured(s) == {i \in Tagged(s) : retflow.apis[i].response_time # None}

\* C38: every service entry has at most total latencies, one for each
\* recorded call whose latency was measured and none for the others; a call
\* that failed at transport level (status 500, no latency) counts in total and
\* failures only.
C38_LatenciesMeasured ==
  \A s \in DOMAIN report.api_health :
    LET h == report.api_health[s]
    IN /\ Len(h.latencies) <= h.total
       /\ Len(h.latencies) = Cardinality(Measured(s))
       /\ Cardinality(Tagged(s) \ Measured(s)) <= h.failures

\* C39: the step in which the request in flight completes (make_request
\* returns its pair) changes no session field, no health counter, no recorded
\* flow and no flow under construction: the returned record is in no flow and
\* in no counter until the caller logs it.
C39_MakeRequestFrame ==
  [][net # <<>> /\ net' = Tail(net) =>
       /\ session' = session
       /\ writes' = writes
       /\ report' = report
       /\ stack' = stack
       /\ retflow' = retflow
       /\ ret' # None
       /\ ret'.call.obj = Head(net).call.obj]_vars

\* make_request has just returned the answer of a later request of the run:
\* tokens and ids are set, the health table has entries and flows are recorded
C39_Witness ==
  /\ ret # None
  /\ ret.call.response_code = JInt(200)
  /\ Truthy(session["customer_token"])
  /\ Truthy(session["test_product_id"])
  /\ Len(report.flows) >= 5
  /\ HealthTotal(SERVICE_A) >= 4
  /\ \A i \in 1..Len(stack) :
       \A k \in 1..Len(stack[i].flow.apis) :
         stack[i].flow.apis[k].obj # ret.call.obj

====
